---- MODULE Spec2Model ----
(***************************************************************************)
(* A model of the orchestration core of BioTwin360:                        *)
(*   - DigitalTwinEngine  (cache, queue, drain loop, per-unit fan-out)      *)
(*   - OrganOrchestrator  (dependency ordering)                            *)
(* Strings that the code hashes are modelled as sequences of character     *)
(* codes, so that serialisation, base64 and truncation are computed, not    *)
(* assumed.                                                                *)
(***************************************************************************)
EXTENDS Integers, Sequences, FiniteSets, TLC

VARIABLES
    \* ---- fingerprint harness (generateCacheKey applied to two records)
    inputA, inputB, fingerprintA, fingerprintB,
    \* ---- OrganOrchestrator
    orchModules, dependencies, interactions, analysisOrder, orderComputed, orch,
    \* ---- DigitalTwinEngine
    config, modules, cache, analysisQueue, isProcessingQueue,
    loops, immediates, req, state, now, cleanupInterval,
    metrics, emitted,
    \* ---- how the latest registry or configuration call ended (history)
    lastCall

keyVars    == <<inputA, inputB, fingerprintA, fingerprintB>>
orchVars   == <<orchModules, dependencies, interactions, analysisOrder,
                orderComputed, orch>>
engineVars == <<config, modules, cache, analysisQueue, isProcessingQueue,
                loops, immediates, req, state, now, cleanupInterval,
                metrics, emitted, lastCall>>
vars       == <<keyVars, orchVars, engineVars>>

(***************************************************************************)
(* Generic helpers                                                         *)
(***************************************************************************)
Min(a, b) == IF a <= b THEN a ELSE b

Range(s) == {s[i] : i \in DOMAIN s}

RECURSIVE SumSeq(_)
SumSeq(s) == IF s = <<>> THEN 0 ELSE Head(s) + SumSeq(Tail(s))

(***************************************************************************)
(* Characters.  A string is a sequence of one-character strings; Code      *)
(* gives the character code that btoa encodes.                             *)
(***************************************************************************)
Code(c) ==
    CASE c = "{" -> 123 [] c = "}" -> 125 [] c = ":" -> 58 [] c = "," -> 44
      [] c = "\"" -> 34
      [] c = "0" -> 48 [] c = "1" -> 49 [] c = "2" -> 50 [] c = "3" -> 51
      [] c = "4" -> 52 [] c = "5" -> 53 [] c = "6" -> 54 [] c = "7" -> 55
      [] c = "8" -> 56 [] c = "9" -> 57
      [] c = "M" -> 77
      [] c = "a" -> 97 [] c = "c" -> 99 [] c = "e" -> 101 [] c = "f" -> 102
      [] c = "g" -> 103 [] c = "h" -> 104 [] c = "i" -> 105 [] c = "k" -> 107
      [] c = "l" -> 108 [] c = "m" -> 109 [] c = "n" -> 110 [] c = "o" -> 111
      [] c = "p" -> 112 [] c = "r" -> 114 [] c = "s" -> 115 [] c = "t" -> 116
      [] c = "w" -> 119 [] c = "y" -> 121

Digit(d) == <<"0", "1", "2", "3", "4", "5", "6", "7", "8", "9">>[d + 1]

\* Number -> decimal string, as JSON.stringify prints a non-negative integer.
RECURSIVE NumStr(_)
NumStr(n) == IF n < 10 THEN <<Digit(n)>> ELSE NumStr(n \div 10) \o <<Digit(n % 10)>>

\* Field names of HealthData used by the model.
age                == <<"a", "g", "e">>
weight             == <<"w", "e", "i", "g", "h", "t">>
crp                == <<"c", "r", "p">>
inflammatoryMarkers ==
    <<"i", "n", "f", "l", "a", "m", "m", "a", "t", "o", "r", "y",
      "M", "a", "r", "k", "e", "r", "s">>

(***************************************************************************)
(* Objects.  A JS object is the sequence of its <<name, value>> properties *)
(* in insertion order; a value is a number or a nested object.             *)
(***************************************************************************)
Num(n) == [t |-> "num", n |-> n, o |-> <<>>]
Obj(o) == [t |-> "obj", n |-> 0, o |-> o]

ObjectKeys(obj) == [i \in DOMAIN obj |-> obj[i][1]]

HasProp(obj, name) == \E i \in DOMAIN obj : obj[i][1] = name

GetProp(obj, name) == obj[CHOOSE i \in DOMAIN obj : obj[i][1] = name][2]

\* String comparison by code units, as Array.prototype.sort() compares names.
RECURSIVE StrLess(_, _)
StrLess(a, b) ==
    IF b = <<>> THEN FALSE
    ELSE IF a = <<>> THEN TRUE
    ELSE IF Code(Head(a)) # Code(Head(b)) THEN Code(Head(a)) < Code(Head(b))
    ELSE StrLess(Tail(a), Tail(b))

\* names.sort(): insertion into an ordered sequence.
RECURSIVE SortNames(_)
SortNames(names) ==
    IF names = <<>> THEN <<>>
    ELSE LET rest == SortNames(Tail(names))
             h    == Head(names)
             k    == Cardinality({i \in DOMAIN rest : ~StrLess(h, rest[i])})
         IN  SubSeq(rest, 1, k) \o <<h>> \o SubSeq(rest, k + 1, Len(rest))

(***************************************************************************)
(* JSON.stringify(value, propertyList): with an array replacer only the    *)
(* listed names are serialised, at every nesting level, in list order.     *)
(***************************************************************************)
Quote(name) == <<"\"">> \o name \o <<"\"">>

RECURSIVE SerializeValue(_, _)
RECURSIVE SerializeProps(_, _, _, _)
SerializeProps(obj, propertyList, k, first) ==
    IF k > Len(propertyList) THEN <<>>
    ELSE IF HasProp(obj, propertyList[k])
         THEN (IF first THEN <<>> ELSE <<",">>)
              \o Quote(propertyList[k]) \o <<":">>
              \o SerializeValue(GetProp(obj, propertyList[k]), propertyList)
              \o SerializeProps(obj, propertyList, k + 1, FALSE)
         ELSE SerializeProps(obj, propertyList, k + 1, first)

SerializeValue(v, propertyList) ==
    IF v.t = "num" THEN NumStr(v.n)
    ELSE <<"{">> \o SerializeProps(v.o, propertyList, 1, TRUE) \o <<"}">>

JSONStringify(obj, propertyList) == SerializeValue(Obj(obj), propertyList)

(***************************************************************************)
(* btoa: three bytes become four sextets; the padding and the two          *)
(* non-alphanumeric digits (62 "+", 63 "/") are what the replace() strips. *)
(***************************************************************************)
Byte(bytes, i) == IF i <= Len(bytes) THEN bytes[i] ELSE 0

Sextet(bytes, j) ==
    LET g  == (j - 1) \div 4
        b0 == Byte(bytes, 3 * g + 1)
        b1 == Byte(bytes, 3 * g + 2)
        b2 == Byte(bytes, 3 * g + 3)
    IN  CASE (j - 1) % 4 = 0 -> b0 \div 4
          [] (j - 1) % 4 = 1 -> (b0 % 4) * 16 + b1 \div 16
          [] (j - 1) % 4 = 2 -> (b1 % 16) * 4 + b2 \div 64
          [] OTHER           -> b2 % 64

\* The data digits of btoa(s): ceil(8 * length / 6) of them, padding left out.
Btoa(str) ==
    LET bytes == [i \in DOMAIN str |-> Code(str[i])]
        n     == (8 * Len(bytes) + 5) \div 6
    IN  [j \in 1..n |-> Sextet(bytes, j)]

RECURSIVE StripNonAlnum(_)
StripNonAlnum(digits) ==
    IF digits = <<>> THEN <<>>
    ELSE IF Head(digits) <= 61 THEN <<Head(digits)>> \o StripNonAlnum(Tail(digits))
    ELSE StripNonAlnum(Tail(digits))

KeyLength == 32

Substring(s, n) == SubSeq(s, 1, Min(n, Len(s)))

\* The same key with the property list left in insertion order (no sort()).
generateCacheKeyUnsorted(healthData) ==
    Substring(StripNonAlnum(Btoa(JSONStringify(healthData, ObjectKeys(healthData)))),
              KeyLength)

generateCacheKey(healthData) ==
    Substring(StripNonAlnum(Btoa(JSONStringify(healthData,
                                               SortNames(ObjectKeys(healthData))))),
              KeyLength)

(***************************************************************************)
(* Health records fed to the fingerprint: every insertion order of the     *)
(* top-level fields, with and without the optional nested markers.         *)
(***************************************************************************)
esr == <<"e", "s", "r">>

Ages    == {35, 40}
Weights == {70, 75}
Markers == { <<<<crp, Num(1)>>>>, <<<<crp, Num(2)>>>>,
             <<<<crp, Num(1)>>, <<esr, Num(5)>>>>,
             <<<<esr, Num(5)>>, <<crp, Num(1)>>>> }

\* Every sequence that lists each property of the set once.
Orderings(props) ==
    {s \in [1..Cardinality(props) -> props] : Range(s) = props}

HealthRecords ==
    UNION { Orderings({<<age, Num(a)>>, <<weight, Num(w)>>})
            \cup UNION { Orderings({<<age, Num(a)>>, <<weight, Num(w)>>,
                                    <<inflammatoryMarkers, Obj(m)>>}) : m \in Markers }
          : <<a, w>> \in Ages \X Weights }

\* Field-wise equality of two objects: same names, same values, any order.
RECURSIVE ValueEqual(_, _)
ValueEqual(u, v) ==
    /\ u.t = v.t
    /\ IF u.t = "num" THEN u.n = v.n
       ELSE /\ Range(ObjectKeys(u.o)) = Range(ObjectKeys(v.o))
            /\ \A k \in Range(ObjectKeys(u.o)) :
                   ValueEqual(GetProp(u.o, k), GetProp(v.o, k))

FieldwiseEqual(a, b) == ValueEqual(Obj(a), Obj(b))

NoKey == <<>>

(***************************************************************************)
(* OrganOrchestrator: registry, dependency edges, analysis order           *)
(***************************************************************************)
Dependency(src, tgt, type, strengthPct, bidir) ==
    [sourceOrgan |-> src, targetOrgan |-> tgt, dependencyType |-> type,
     strength |-> strengthPct, bidirectional |-> bidir]

\* strength is kept in hundredths (0.9 is 90).
defaultDependencies ==
    << Dependency("cardiovascular", "renal", "circulatory", 90, TRUE),
       Dependency("cardiovascular", "neurological", "circulatory", 80, FALSE),
       Dependency("cardiovascular", "pulmonary", "circulatory", 95, TRUE),
       Dependency("hepatic", "cardiovascular", "metabolic", 70, FALSE),
       Dependency("hepatic", "renal", "metabolic", 60, FALSE),
       Dependency("renal", "cardiovascular", "functional", 80, FALSE),
       Dependency("pulmonary", "cardiovascular", "functional", 90, FALSE),
       Dependency("neurological", "musculoskeletal", "neural", 85, FALSE),
       Dependency("musculoskeletal", "cardiovascular", "functional", 60, FALSE) >>

OrganIds == {"cardiovascular", "renal", "hepatic", "pulmonary",
             "neurological", "musculoskeletal"}

\* Edges a caller may add with addDependency.
CustomDependencies ==
    { Dependency("neurological", "hepatic", "neural", 50, FALSE),
      Dependency("hepatic", "neurological", "metabolic", 50, FALSE),
      Dependency("renal", "renal", "functional", 50, FALSE) }

MaxCustomDeps == 2

\* d => d.targetOrgan === moduleId, in the order of this.dependencies.
DepsVariantBySource(deps, moduleId) ==
    SelectSeq(deps, LAMBDA d : d.sourceOrgan = moduleId)

DepsOf(deps, moduleId) ==
    SelectSeq(deps, LAMBDA d : d.targetOrgan = moduleId)

\* this.modules.has(dep.sourceOrgan)
SourceVariantUnchecked(mods, dep) == TRUE

SourceRegistered(mods, dep) == dep.sourceOrgan \in Range(mods)

\* visit(moduleId) acting on the closure's visited, visiting and order;
\* detected collects the cycles found, each as the pair of the node met while
\* still being visited and the node whose edges were being walked.
RECURSIVE visit(_, _, _, _)
RECURSIVE visitDeps(_, _, _, _)
\* The loop over deps leaving after its first edge.
visitDepsVariantFirst(st, mods, deps, ds) ==
    IF ds = <<>> THEN st
    ELSE IF SourceRegistered(mods, Head(ds))
         THEN visit(st, mods, deps, Head(ds).sourceOrgan)
         ELSE st

visitDeps(st, mods, deps, ds) ==
    IF ds = <<>> THEN st
    ELSE visitDeps(IF SourceRegistered(mods, Head(ds))
                   THEN visit(IF Head(ds).sourceOrgan \in st.visiting
                              THEN [st EXCEPT !.detected = @ \cup
                                      {<<Head(ds).sourceOrgan, Head(ds).targetOrgan>>}]
                              ELSE st,
                              mods, deps, Head(ds).sourceOrgan)
                   ELSE st,
                   mods, deps, Tail(ds))

\* visit appending the node where the cycle is detected.
visitVariantAppend(st, mods, deps, moduleId) ==
    IF moduleId \in st.visited THEN st
    ELSE IF moduleId \in st.visiting
    THEN [st EXCEPT !.order = Append(@, moduleId)]
    ELSE LET entered == [st EXCEPT !.visiting = @ \cup {moduleId}]
             after   == visitDeps(entered, mods, deps, DepsOf(deps, moduleId))
         IN  [after EXCEPT !.visited  = @ \cup {moduleId},
                           !.visiting = @ \ {moduleId},
                           !.order    = IF moduleId \in Range(@) THEN @
                                        ELSE Append(@, moduleId)]

visit(st, mods, deps, moduleId) ==
    IF moduleId \in st.visited THEN st
    ELSE IF moduleId \in st.visiting THEN st
    ELSE LET entered == [st EXCEPT !.visiting = @ \cup {moduleId}]
             after   == visitDeps(entered, mods, deps, DepsOf(deps, moduleId))
         IN  [after EXCEPT !.visited  = @ \cup {moduleId},
                           !.visiting = @ \ {moduleId},
                           !.order    = Append(@, moduleId)]

RECURSIVE visitAll(_, _, _, _)
visitAll(st, mods, deps, ids) ==
    IF ids = <<>> THEN st
    ELSE visitAll(visit(st, mods, deps, Head(ids)), mods, deps, Tail(ids))

calculateAnalysisOrder(mods, deps) ==
    visitAll([visited |-> {}, visiting |-> {}, order |-> <<>>, detected |-> {}],
             mods, deps, mods).order

\* The cycles calculateAnalysisOrder reports on its way (debugMode).
detectedCycles(mods, deps) ==
    visitAll([visited |-> {}, visiting |-> {}, order |-> <<>>, detected |-> {}],
             mods, deps, mods).detected

(***************************************************************************)
(* DigitalTwinEngine: data                                                 *)
(***************************************************************************)
MaxRequests   == 4
MaxConcurrent == 2
MaxCacheSize  == 2
MaxTime       == 2

Requests == 1..MaxRequests

\* The records callers submit.  "x" and "y" differ in weight only, "z"
\* differs from "x" in age and "w" has no markers.
InputIds == {"x", "y", "z", "w"}

HealthDataOf(id) ==
    CASE id = "x" -> << <<age, Num(35)>>, <<weight, Num(70)>>,
                        <<inflammatoryMarkers, Obj(<< <<crp, Num(1)>> >>)>> >>
      [] id = "y" -> << <<age, Num(35)>>, <<weight, Num(75)>>,
                        <<inflammatoryMarkers, Obj(<< <<crp, Num(1)>> >>)>> >>
      [] id = "z" -> << <<age, Num(40)>>, <<weight, Num(70)>>,
                        <<inflammatoryMarkers, Obj(<< <<crp, Num(1)>> >>)>> >>
      [] id = "w" -> << <<age, Num(35)>>, <<weight, Num(70)>> >>

CacheKeyOf == [id \in InputIds |-> generateCacheKey(HealthDataOf(id))]

\* Test units: what analyze() yields when it returns (confidence in hundredths).
EngineUnits == {"heart", "liver"}

riskScoreOf(u)  == IF u = "heart" THEN 80 ELSE 20
confidenceOf(u) == IF u = "heart" THEN 90 ELSE 70

\* A JS value that is undefined, or a string.
Undefined  == [present |-> FALSE, message |-> ""]
Message(m) == [present |-> TRUE, message |-> m]
Truthy(e)  == e.present /\ e.message # ""

\* How one analyze() call, raced against the timeout, can end.
Returned   == [kind |-> "returned", message |-> ""]
Threw(m)   == [kind |-> "threw", message |-> m]
TimedOut   == [kind |-> "timeout", message |-> "Module analysis timeout"]

\* heart returns or never returns; liver returns or rejects, with or without
\* a message on the Error.
UnitOutcomes(u) ==
    IF u = "heart" THEN {Returned, TimedOut}
    ELSE {Returned, Threw("Analysis failed"), Threw("")}

Running(u) ==
    [moduleId |-> u, riskScore |-> 0, confidence |-> 0, timestamp |-> 0,
     error |-> Undefined]

\* The entry the fan-out produces for one unit: the unit's result with
\* moduleId and timestamp, or the fallback carrying the error's message.
ResultOf(u, outcome, t) ==
    IF outcome.kind = "returned"
    THEN [moduleId |-> u, riskScore |-> riskScoreOf(u), confidence |-> confidenceOf(u),
          timestamp |-> t, error |-> Undefined]
    ELSE [moduleId |-> u, riskScore |-> 0, confidence |-> 0,
          timestamp |-> t, error |-> Message(outcome.message)]

\* results.filter(r => !r.error)
validResults(results) == SelectSeq(results, LAMBDA r : ~Truthy(r.error))

\* sum / length; the test units' scores keep the quotient integral.
Mean(values) == IF Len(values) > 0 THEN SumSeq(values) \div Len(values) ELSE 0

globalRiskScoreOf(results) ==
    Mean([i \in DOMAIN validResults(results) |-> validResults(results)[i].riskScore])

globalConfidenceOf(results) ==
    Mean([i \in DOMAIN validResults(results) |-> validResults(results)[i].confidence])

NewRequest ==
    [status |-> "new", healthData |-> "none", units |-> <<>>, results |-> <<>>,
     pending |-> {}, attempt |-> 0, calls |-> [u \in EngineUnits |-> 0],
     fromCache |-> FALSE, globalRiskScore |-> 0, globalConfidence |-> 0,
     error |-> "", settledAt |-> -1, lookup |-> "none", startedAt |-> 0]

Settled(rec) == rec.status \in {"resolved", "rejected"}

Executing == {r \in Requests : req[r].status \in {"executing", "retryWait"}}

(***************************************************************************)
(* Performance metrics.  A running mean (averageTime, successRate,         *)
(* averageProcessingTime, errorRate) is kept as the sum it is the mean of: *)
(* the mean is that sum divided by the count kept beside it, and is zero   *)
(* exactly when the sum is.                                                *)
(***************************************************************************)
NaN == -1

Plus(a, b) == IF a = NaN \/ b = NaN THEN NaN ELSE a + b

ZeroModuleMetrics == [averageTime |-> 0, successRate |-> 0, totalCalls |-> 0]

ZeroMetrics(perModule) ==
    [totalAnalyses |-> 0, averageProcessingTime |-> 0, cacheHitRate |-> 0,
     errorRate |-> 0, modulePerformance |-> perModule]

\* Map.get(id) || { zeros }, Map.set and Map.delete on modulePerformance.
ModuleMetricsOf(mp, u) == IF u \in DOMAIN mp THEN mp[u] ELSE ZeroModuleMetrics

MapPut(mp, u, v) == [x \in DOMAIN mp \cup {u} |-> IF x = u THEN v ELSE mp[x]]

MapDelete(mp, u) == [x \in DOMAIN mp \ {u} |-> mp[x]]

\* One analyze() call counted for its unit.
RecordCall(mm, duration, success) ==
    [totalCalls  |-> mm.totalCalls + 1,
     averageTime |-> mm.averageTime + duration,
     successRate |-> mm.successRate + IF success THEN 100 ELSE 0]

\* errorCount / results.length * 100; 0 / 0 is NaN.
ErrorPercent(results) ==
    IF results = <<>> THEN NaN
    ELSE (Cardinality({i \in DOMAIN results : Truthy(results[i].error)}) * 100)
         \div Len(results)

\* One finished analysis counted.
RecordAnalysis(m, duration, results) ==
    [m EXCEPT !.totalAnalyses = @ + 1,
              !.averageProcessingTime = @ + duration,
              !.errorRate = Plus(@, ErrorPercent(results))]

NoCall == [op |-> "none", arg |-> "none", threw |-> ""]

Call(op, arg, threw) == [op |-> op, arg |-> arg, threw |-> threw]

(***************************************************************************)
(* Cache store                                                             *)
(***************************************************************************)
CacheIndex(c, key) ==
    IF \E i \in DOMAIN c : c[i].hash = key
    THEN CHOOSE i \in DOMAIN c : c[i].hash = key
    ELSE 0

RemoveAt(c, i) == SubSeq(c, 1, i - 1) \o SubSeq(c, i + 1, Len(c))

\* now - entry.timestamp > cacheTTL
ExpiredVariantInclusive(entry, t) == t - entry.timestamp >= config.cacheTTL

Expired(entry, t) == t - entry.timestamp > config.cacheTTL

\* getCachedResult: a hit when enabled, present and not expired.
CacheHit(c, key, t) ==
    /\ config.cacheEnabled
    /\ CacheIndex(c, key) # 0
    /\ ~Expired(c[CacheIndex(c, key)], t)

\* What getCachedResult found (kept with the request as history).
LookupOf(c, key, t) ==
    IF ~config.cacheEnabled THEN "disabled"
    ELSE IF CacheIndex(c, key) = 0 THEN "absent"
    ELSE IF Expired(c[CacheIndex(c, key)], t) THEN "expired"
    ELSE "hit"

\* The store after getCachedResult: an expired entry is deleted, a hit is counted.
CacheAfterGet(c, key, t) ==
    IF ~config.cacheEnabled \/ CacheIndex(c, key) = 0 THEN c
    ELSE IF Expired(c[CacheIndex(c, key)], t) THEN RemoveAt(c, CacheIndex(c, key))
    ELSE [c EXCEPT ![CacheIndex(c, key)].accessCount = @ + 1]

\* this.cache.size >= this.config.cacheMaxSize
SizeLimitVariantStrict(c) == Len(c) > config.cacheMaxSize

SizeLimitReached(c) == Len(c) >= config.cacheMaxSize

\* entries sorted by timestamp (a stable sort), first element.
OldestIndex(c) ==
    CHOOSE i \in DOMAIN c :
        /\ \A j \in DOMAIN c : c[i].timestamp <= c[j].timestamp
        /\ \A j \in 1..(i - 1) : c[j].timestamp > c[i].timestamp

\* The [0][0] of an empty sorted list is a TypeError.
SetCachedThrows(c) == config.cacheEnabled /\ SizeLimitReached(c) /\ c = <<>>

\* Map.set: an existing key keeps its place, a new one goes last.
MapSet(c, entry) ==
    IF CacheIndex(c, entry.hash) # 0
    THEN [c EXCEPT ![CacheIndex(c, entry.hash)] = entry]
    ELSE Append(c, entry)

\* The store when the computed results are not kept.
setCachedVariantSkipped(c, key, results, t) == c

\* The store when only result sets without a failed entry are kept.
setCachedVariantSuccessOnly(c, key, results, t) ==
    IF ~config.cacheEnabled \/ \E i \in DOMAIN results : results[i].error.present
    THEN c
    ELSE MapSet(IF SizeLimitReached(c) THEN RemoveAt(c, OldestIndex(c)) ELSE c,
                [data |-> results, timestamp |-> t, hash |-> key, accessCount |-> 1])

setCachedResult(c, key, results, t) ==
    IF ~config.cacheEnabled THEN c
    ELSE MapSet(IF SizeLimitReached(c) THEN RemoveAt(c, OldestIndex(c)) ELSE c,
                [data |-> results, timestamp |-> t, hash |-> key, accessCount |-> 1])

\* cleanupCache: every expired entry goes.
cleanupCache(c, t) ==
    IF ~config.cacheEnabled THEN c
    ELSE SelectSeq(c, LAMBDA e : ~Expired(e, t))

(***************************************************************************)
(* DigitalTwinEngine: operations                                           *)
(***************************************************************************)
\* Configurations the constructor is given (monitoring and debug output off).
Configs ==
    [maxConcurrentAnalyses : 1..MaxConcurrent,
     cacheEnabled          : BOOLEAN,
     cacheMaxSize          : 1..MaxCacheSize,
     cacheTTL              : {1},
     retryAttempts         : {3},
     performanceMonitoring : BOOLEAN,
     debugMode             : {FALSE}]

EngineConstructed(cfg) ==
    /\ config = cfg
    /\ modules = <<>>
    /\ cache = <<>>
    /\ analysisQueue = <<>>
    /\ isProcessingQueue = FALSE
    /\ loops = {}
    /\ immediates = 0
    /\ req = [r \in Requests |-> NewRequest]
    /\ state = [isAnalyzing |-> FALSE, lastUpdate |-> -1, activeModules |-> <<>>,
                globalRiskScore |-> 0, confidence |-> 0]
    /\ now = 0
    /\ cleanupInterval = cfg.cacheEnabled
    /\ metrics = ZeroMetrics(<<>>)
    /\ emitted = [moduleRegistered |-> 0, moduleUnregistered |-> 0]
    /\ lastCall = NoCall

\* performAnalysis up to its await: analyze() is called on every registered
\* unit, each call raced against the timeout.
StartAnalysis(rec, mods) ==
    [rec EXCEPT !.status  = "executing",
                !.units   = mods,
                !.results = [i \in DOMAIN mods |-> Running(mods[i])],
                !.pending = DOMAIN mods,
                !.attempt = @ + 1,
                !.startedAt = IF config.performanceMonitoring THEN now ELSE 0,
                !.calls   = [u \in EngineUnits |->
                                @[u] + IF u \in Range(mods) THEN 1 ELSE 0]]

\* while (queue.length > 0 && processing.length < concurrentLimit)
AdmitVariantUnbounded(q) == Len(q)

AdmitCount(q) == Min(Len(q), config.maxConcurrentAnalyses)

\* n times this.analysisQueue.shift(): the items taken and the queue left.
shiftVariantPop(q, n) ==
    [taken |-> {q[i] : i \in (Len(q) - n + 1)..Len(q)},
     rest  |-> SubSeq(q, 1, Len(q) - n)]

shift(q, n) ==
    [taken |-> {q[i] : i \in 1..n}, rest |-> SubSeq(q, n + 1, Len(q))]

\* processQueue on queue q and request table rq, up to its await.
processQueue(q, rq) ==
    IF isProcessingQueue \/ q = <<>>
    THEN /\ analysisQueue' = q
         /\ req' = rq
         /\ UNCHANGED <<isProcessingQueue, loops>>
    ELSE LET batch == shift(q, AdmitCount(q)).taken
         IN  /\ analysisQueue' = shift(q, AdmitCount(q)).rest
             /\ isProcessingQueue' = TRUE
             /\ loops' = loops \cup {batch}
             /\ req' = [r \in Requests |->
                           IF r \in batch THEN StartAnalysis(rq[r], modules) ELSE rq[r]]

NextRequest ==
    CHOOSE r \in Requests :
        req[r].status = "new" /\ \A q \in Requests : req[q].status = "new" => r <= q

\* analyzeHealth(healthData): the cache, else the queue and the drain loop.
analyzeHealth(x) ==
    /\ \E r \in Requests : req[r].status = "new"
    /\ LET r   == NextRequest
           key == CacheKeyOf[x]
       IN  /\ req[r].status = "new"
           /\ cache' = CacheAfterGet(cache, key, now)
           /\ IF CacheHit(cache, key, now)
              THEN /\ req' = [req EXCEPT ![r] =
                                 [@ EXCEPT !.status = "resolved", !.healthData = x,
                                           !.fromCache = TRUE, !.settledAt = now,
                                           !.lookup = "hit",
                                           !.results = cache[CacheIndex(cache, key)].data,
                                           !.globalRiskScore = state.globalRiskScore,
                                           !.globalConfidence = state.confidence]]
                   /\ UNCHANGED <<analysisQueue, isProcessingQueue, loops>>
              ELSE processQueue(Append(analysisQueue, r),
                                [req EXCEPT ![r] =
                                    [@ EXCEPT !.status = "queued", !.healthData = x,
                                              !.lookup = LookupOf(cache, key, now)]])
    /\ lastCall' = Call("analyzeHealth", x, "")
    /\ UNCHANGED <<keyVars, orchVars, metrics, emitted, config,
                   modules, immediates, state, now, cleanupInterval>>

\* Promise continuations (microtasks) that are ready to run: they run before
\* any timer or setImmediate callback, and before the clock moves.
MicrotasksPending ==
    \/ \E r \in Requests : req[r].status = "executing" /\ req[r].pending = {}
    \/ \E b \in loops : \A r \in b : Settled(req[r])

\* One analyze() call of an executing request settles: it returns, rejects,
\* or loses the race against the timeout (a timer callback).
UnitSettles(r, i, outcome) ==
    /\ req[r].status = "executing"
    /\ outcome.kind = "timeout" => ~MicrotasksPending
    /\ i \in req[r].pending
    /\ outcome \in UnitOutcomes(req[r].units[i])
    /\ req' = [req EXCEPT ![r] =
                  [@ EXCEPT !.pending = @ \ {i},
                            !.results = [@ EXCEPT ![i] =
                                            ResultOf(req[r].units[i], outcome, now)]]]
    /\ metrics' = IF config.performanceMonitoring
                  THEN [metrics EXCEPT !.modulePerformance =
                           MapPut(@, req[r].units[i],
                                  RecordCall(ModuleMetricsOf(@, req[r].units[i]),
                                             now - req[r].startedAt,
                                             outcome.kind = "returned"))]
                  ELSE metrics
    /\ UNCHANGED <<keyVars, orchVars, emitted, lastCall, config, modules,
                   cache, analysisQueue, isProcessingQueue, loops,
                   immediates, state, now, cleanupInterval>>

\* The rest of performAnalysis and of executeAnalysis once every call has
\* settled: global figures, then resolve(), which caches first.
CompleteAnalysis(r) ==
    /\ req[r].status = "executing"
    /\ req[r].pending = {}
    /\ LET results == req[r].results
           g       == globalRiskScoreOf(results)
           c       == globalConfidenceOf(results)
       IN  /\ state' = [state EXCEPT !.globalRiskScore = g, !.confidence = c,
                                     !.lastUpdate = now]
           /\ IF SetCachedThrows(cache)
              THEN /\ cache' = cache
                   /\ req' = [req EXCEPT ![r] =
                                 IF @.attempt < config.retryAttempts
                                 THEN [@ EXCEPT !.status = "retryWait",
                                                !.error = "TypeError"]
                                 ELSE [@ EXCEPT !.status = "rejected",
                                                !.error = "TypeError",
                                                !.settledAt = now]]
              ELSE /\ cache' = setCachedResult(cache, CacheKeyOf[req[r].healthData],
                                               results, now)
                   /\ req' = [req EXCEPT ![r] =
                                 [@ EXCEPT !.status = "resolved",
                                           !.settledAt = now,
                                           !.globalRiskScore = g,
                                           !.globalConfidence = c]]
    /\ metrics' = IF config.performanceMonitoring
                  THEN RecordAnalysis(metrics, now - req[r].startedAt, req[r].results)
                  ELSE metrics
    /\ UNCHANGED <<keyVars, orchVars, emitted, lastCall, config, modules,
                   analysisQueue, isProcessingQueue, loops,
                   immediates, now, cleanupInterval>>

\* executeAnalysis after the retry delay: performAnalysis once more.
RetryAnalysis(r) ==
    /\ req[r].status = "retryWait"
    /\ req' = [req EXCEPT ![r] = StartAnalysis(@, modules)]
    /\ UNCHANGED <<keyVars, orchVars, metrics, emitted, lastCall, config,
                   modules, cache, analysisQueue, isProcessingQueue, loops,
                   immediates, state, now, cleanupInterval>>

\* processQueue after "await Promise.all(processing)".
FollowUpVariantNone(q) == 0

FollowUp(q) == IF Len(q) > 0 THEN 1 ELSE 0

DrainFinish(batch) ==
    /\ batch \in loops
    /\ \A r \in batch : Settled(req[r])
    /\ loops' = loops \ {batch}
    /\ isProcessingQueue' = FALSE
    /\ immediates' = immediates + FollowUp(analysisQueue)
    /\ UNCHANGED <<keyVars, orchVars, metrics, emitted, lastCall, config,
                   modules, cache, analysisQueue, req, state, now,
                   cleanupInterval>>

\* The setImmediate callback: processQueue again.
RunImmediate ==
    /\ immediates > 0
    /\ ~MicrotasksPending
    /\ immediates' = immediates - 1
    /\ processQueue(analysisQueue, req)
    /\ UNCHANGED <<keyVars, orchVars, metrics, emitted, lastCall, config,
                   modules, cache, state, now, cleanupInterval>>

\* this.modules.has(module.id)
RegisteredVariantNever(mods, u) == FALSE

AlreadyRegistered(mods, u) == u \in Range(mods)

registerModule(u) ==
    IF AlreadyRegistered(modules, u)
    THEN /\ lastCall' = Call("registerModule", u, "Module is already registered")
         /\ UNCHANGED <<keyVars, orchVars, metrics, emitted, config, modules, cache,
                        analysisQueue, isProcessingQueue, loops, immediates, req,
                        state, now, cleanupInterval>>
    ELSE /\ modules' = Append(modules, u)
         /\ state' = [state EXCEPT !.activeModules = Append(@, u)]
         /\ metrics' = IF config.performanceMonitoring
                       THEN [metrics EXCEPT !.modulePerformance =
                                MapPut(@, u, ZeroModuleMetrics)]
                       ELSE metrics
         /\ emitted' = [emitted EXCEPT !.moduleRegistered = @ + 1]
         /\ lastCall' = Call("registerModule", u, "")
         /\ UNCHANGED <<keyVars, orchVars, config, cache, analysisQueue,
                        isProcessingQueue, loops, immediates, req, now,
                        cleanupInterval>>

\* !this.modules.has(moduleId)
NotRegistered(mods, u) == u \notin Range(mods)

unregisterModule(u) ==
    IF NotRegistered(modules, u)
    THEN /\ lastCall' = Call("unregisterModule", u, "Module is not registered")
         /\ UNCHANGED <<keyVars, orchVars, metrics, emitted, config, modules, cache,
                        analysisQueue, isProcessingQueue, loops, immediates, req,
                        state, now, cleanupInterval>>
    ELSE /\ modules' = SelectSeq(modules, LAMBDA m : m # u)
         /\ state' = [state EXCEPT !.activeModules = SelectSeq(@, LAMBDA m : m # u)]
         /\ metrics' = [metrics EXCEPT !.modulePerformance = MapDelete(@, u)]
         /\ emitted' = [emitted EXCEPT !.moduleUnregistered = @ + 1]
         /\ lastCall' = Call("unregisterModule", u, "")
         /\ UNCHANGED <<keyVars, orchVars, config, cache, analysisQueue,
                        isProcessingQueue, loops, immediates, req, now,
                        cleanupInterval>>

\* A caller that registers a unit it has not registered before.
RegisterOnce(u) ==
    /\ u \notin Range(modules)
    /\ emitted.moduleRegistered = Len(modules)
    /\ registerModule(u)

\* Every queued item is rejected with the given reason.
\* analysisQueue.forEach(item => item.reject(new Error(reason)))
RejectVariantNone(rq, reason) == rq

\* Every unsettled request is rejected, the admitted ones included.
RejectVariantAdmitted(rq, reason) ==
    [r \in Requests |->
        IF rq[r].status \in {"queued", "executing", "retryWait"}
        THEN [rq[r] EXCEPT !.status = "rejected", !.error = reason,
                           !.settledAt = now]
        ELSE rq[r]]

RejectQueued(rq, reason) ==
    [r \in Requests |->
        IF r \in Range(analysisQueue)
        THEN [rq[r] EXCEPT !.status = "rejected", !.error = reason,
                           !.settledAt = now]
        ELSE rq[r]]

\* for (const moduleId of this.modules.keys()) modulePerformance.set(moduleId, zeros)
ReinitVariantKept(mods, mp) == mp

ReinitModuleMetrics(mods, mp) == [u \in Range(mods) |-> ZeroModuleMetrics]

reset ==
    /\ req' = RejectQueued(req, "Engine reset - analysis cancelled")
    /\ analysisQueue' = <<>>
    /\ isProcessingQueue' = FALSE
    /\ state' = [isAnalyzing |-> FALSE, lastUpdate |-> -1, activeModules |-> modules,
                 globalRiskScore |-> 0, confidence |-> 0]
    /\ metrics' = ZeroMetrics(ReinitModuleMetrics(modules, metrics.modulePerformance))
    /\ cache' = <<>>
    /\ lastCall' = Call("reset", "none", "")
    /\ UNCHANGED <<keyVars, orchVars, emitted, config, modules, loops,
                   immediates, now, cleanupInterval>>

destroy ==
    /\ req' = RejectQueued(req, "Engine destroyed - analysis cancelled")
    /\ analysisQueue' = <<>>
    /\ modules' = <<>>
    /\ cache' = <<>>
    /\ state' = [state EXCEPT !.activeModules = <<>>]
    /\ lastCall' = Call("destroy", "none", "")
    /\ UNCHANGED <<keyVars, orchVars, metrics, emitted, config,
                   isProcessingQueue, loops, immediates, now, cleanupInterval>>

\* The one-minute interval the constructor starts when the cache is enabled.
CleanupTimer ==
    /\ cleanupInterval
    /\ ~MicrotasksPending
    /\ cache' = cleanupCache(cache, now)
    /\ UNCHANGED <<keyVars, orchVars, metrics, emitted, lastCall, config,
                   modules, analysisQueue, isProcessingQueue, loops,
                   immediates, req, state, now, cleanupInterval>>

\* Date.now() advances.
Tick ==
    /\ now < MaxTime
    /\ ~MicrotasksPending
    /\ now' = now + 1
    /\ UNCHANGED <<keyVars, orchVars, metrics, emitted, lastCall, config,
                   modules, cache, analysisQueue, isProcessingQueue, loops,
                   immediates, req, state, cleanupInterval>>

(***************************************************************************)
(* OrganOrchestrator: orchestrateAnalysis                                  *)
(*                                                                         *)
(* JS numbers that are not integers (means, impact factors, correlations)  *)
(* are kept as exact fractions in lowest terms; the fraction with          *)
(* denominator 0 is NaN, which every operation passes on and every         *)
(* comparison answers with false.                                          *)
(***************************************************************************)
RECURSIVE GCD(_, _)
GCD(a, b) == IF b = 0 THEN a ELSE GCD(b, a % b)

Abs(n) == IF n < 0 THEN 0 - n ELSE n

Rat(n, d) ==
    IF d = 0 THEN [num |-> 0, den |-> 0]
    ELSE LET g == GCD(Abs(n), d) IN [num |-> n \div g, den |-> d \div g]

RatNaN == Rat(0, 0)

\* The sum of JS numbers, NaN as soon as one of them is undefined or NaN,
\* and its quotient by a count.
Total(values) ==
    IF \E i \in DOMAIN values : values[i] = NaN THEN NaN ELSE SumSeq(values)

Quotient(total, n) == IF total = NaN THEN RatNaN ELSE Rat(total, n)

RatMul(a, b) == Rat(a.num * b.num, a.den * b.den)
RatAdd(a, b) == Rat(a.num * b.den + b.num * a.den, a.den * b.den)
RatSub(a, b) == Rat(a.num * b.den - b.num * a.den, a.den * b.den)
RatLeq(a, b) == a.den # 0 /\ b.den # 0 /\ a.num * b.den <= b.num * a.den
RatMin(a, b) == IF a.den = 0 \/ b.den = 0 THEN RatNaN
                ELSE IF RatLeq(a, b) THEN a ELSE b
RatMax(a, b) == IF a.den = 0 \/ b.den = 0 THEN RatNaN
                ELSE IF RatLeq(a, b) THEN b ELSE a
RatAbs(a)    == [num |-> Abs(a.num), den |-> a.den]

Interaction(a, b, type, factor) ==
    [organs |-> <<a, b>>, interactionType |-> type, impactFactor |-> factor]

defaultInteractions ==
    << Interaction("cardiovascular", "pulmonary", "synergistic", Rat(120, 100)),
       Interaction("cardiovascular", "renal", "synergistic", Rat(115, 100)),
       Interaction("hepatic", "cardiovascular", "synergistic", Rat(110, 100)),
       Interaction("neurological", "cardiovascular", "synergistic", Rat(125, 100)),
       Interaction("musculoskeletal", "cardiovascular", "synergistic", Rat(110, 100)),
       Interaction("hepatic", "renal", "antagonistic", Rat(90, 100)) >>

OrchConfigs ==
    [enableDependencyAnalysis  : BOOLEAN,
     enableInteractionModeling : BOOLEAN,
     correlationThreshold      : {Rat(7, 10)}]

OrchDefaultConfig ==
    [enableDependencyAnalysis |-> TRUE, enableInteractionModeling |-> TRUE,
     correlationThreshold |-> Rat(7, 10)]

\* The units registered with the orchestrator, and what analyze() yields
\* when it returns.
OrchUnits == {"cardiovascular", "hepatic", "pulmonary"}

organRiskScoreOf(u) ==
    IF u = "cardiovascular" THEN 80 ELSE IF u = "hepatic" THEN 20 ELSE 50

organConfidenceOf(u) ==
    IF u = "cardiovascular" THEN 90 ELSE IF u = "hepatic" THEN 70 ELSE 80

\* cardiovascular returns or never returns; hepatic returns or rejects, with
\* or without a message on the Error; pulmonary returns.
OrchUnitOutcomes(u) ==
    IF u = "cardiovascular" THEN {Returned}
    ELSE IF u = "hepatic" THEN {Returned, Threw("Analysis failed"), Threw("")}
    ELSE {Returned}

OrchCanHang(u) == u = "cardiovascular"

ModuleTimeout == [kind |-> "timeout", message |-> "Module timeout"]

OrchRunning(u) ==
    [moduleId |-> u, riskScore |-> 0, confidence |-> 0, error |-> Undefined]

\* The organResults entry of one unit: its result, or the fallback result.
OrchResultOf(u, outcome) ==
    IF outcome.kind = "returned"
    THEN [moduleId |-> u, riskScore |-> organRiskScoreOf(u),
          confidence |-> organConfidenceOf(u), error |-> Undefined]
    ELSE [moduleId |-> u, riskScore |-> 0, confidence |-> 0,
          error |-> Message(outcome.message)]

\* organResults.has(organId) && !organResults.get(organId)?.error
HasResult(organResults, organId) ==
    \E i \in DOMAIN organResults :
        organResults[i].moduleId = organId /\ ~Truthy(organResults[i].error)

ScoreOf(organResults, organId) ==
    organResults[CHOOSE i \in DOMAIN organResults :
                    organResults[i].moduleId = organId].riskScore

SumSquares(scores) == SumSeq([i \in DOMAIN scores |-> scores[i] * scores[i]])

\* variance = sum((score - mean)^2) / n = (n * sum(score^2) - sum(score)^2) / n^2
Variance(scores) ==
    IF Total(scores) = NaN THEN RatNaN
    ELSE Rat(Len(scores) * SumSquares(scores) - SumSeq(scores) * SumSeq(scores),
             Len(scores) * Len(scores))

calculateCorrelation(scores) ==
    IF Len(scores) < 2 THEN Rat(0, 1)
    ELSE IF Variance(scores) = Rat(0, 1) THEN Rat(1, 1)
    ELSE RatMin(Rat(1, 1), RatMul(Variance(scores), Rat(1, 1000)))

\* activeInteractions with unshift in place of push.
RECURSIVE activeInteractionsVariantUnshift(_, _, _)
activeInteractionsVariantUnshift(list, organResults, threshold) ==
    IF list = <<>> THEN <<>>
    ELSE LET interaction == Head(list)
             rest == activeInteractionsVariantUnshift(Tail(list), organResults,
                                                      threshold)
             hasAllResults ==
                 \A k \in DOMAIN interaction.organs :
                     HasResult(organResults, interaction.organs[k])
             correlation ==
                 calculateCorrelation(
                     [k \in DOMAIN interaction.organs |->
                         ScoreOf(organResults, interaction.organs[k])])
         IN  IF hasAllResults /\ RatLeq(threshold, RatAbs(correlation))
             THEN rest \o <<[interaction EXCEPT !.impactFactor =
                                                  RatMul(@, RatAbs(correlation))]>>
             ELSE rest

RECURSIVE activeInteractions(_, _, _)
activeInteractions(list, organResults, threshold) ==
    IF list = <<>> THEN <<>>
    ELSE LET interaction == Head(list)
             rest == activeInteractions(Tail(list), organResults, threshold)
             hasAllResults ==
                 \A k \in DOMAIN interaction.organs :
                     HasResult(organResults, interaction.organs[k])
             correlation ==
                 calculateCorrelation(
                     [k \in DOMAIN interaction.organs |->
                         ScoreOf(organResults, interaction.organs[k])])
         IN  IF hasAllResults /\ RatLeq(threshold, RatAbs(correlation))
             THEN <<[interaction EXCEPT !.impactFactor =
                                          RatMul(@, RatAbs(correlation))]>> \o rest
             ELSE rest

calculateOrganInteractions(list, organResults, cfg) ==
    IF cfg.enableInteractionModeling
    THEN activeInteractions(list, organResults, cfg.correlationThreshold)
    ELSE <<>>

\* Array.from(organResults.values()).filter(r => !r.error)
OrchValidResults(organResults) ==
    SelectSeq(organResults, LAMBDA r : ~Truthy(r.error))

\* applyInteractions with the test for two relevant results off by one.
RECURSIVE applyInteractionsVariantThree(_, _, _)
applyInteractionsVariantThree(baseScore, active, results) ==
    IF active = <<>> THEN baseScore
    ELSE LET interaction == Head(active)
             relevant == SelectSeq(results,
                             LAMBDA r : r.moduleId \in Range(interaction.organs))
             next == IF Len(relevant) > 2
                     THEN IF interaction.interactionType = "synergistic"
                          THEN RatMul(baseScore, interaction.impactFactor)
                          ELSE RatMul(baseScore,
                                      RatSub(Rat(2, 1), interaction.impactFactor))
                     ELSE baseScore
         IN  applyInteractionsVariantThree(next, Tail(active), results)

RECURSIVE applyInteractions(_, _, _)
applyInteractions(baseScore, active, results) ==
    IF active = <<>> THEN baseScore
    ELSE LET interaction == Head(active)
             relevant == SelectSeq(results,
                             LAMBDA r : r.moduleId \in Range(interaction.organs))
             next == IF Len(relevant) >= 2
                     THEN IF interaction.interactionType = "synergistic"
                          THEN RatMul(baseScore, interaction.impactFactor)
                          ELSE IF interaction.interactionType = "antagonistic"
                          THEN RatMul(baseScore,
                                      RatSub(Rat(2, 1), interaction.impactFactor))
                          ELSE baseScore
                     ELSE baseScore
         IN  applyInteractions(next, Tail(active), results)

calculateGlobalRiskScore(results, active) ==
    IF results = <<>> THEN Rat(0, 1)
    ELSE RatMin(Rat(100, 1), RatMax(Rat(0, 1),
            applyInteractions(
                Quotient(Total([i \in DOMAIN results |-> results[i].riskScore]),
                         Len(results)),
                active, results)))

calculateGlobalConfidence(results) ==
    IF results = <<>> THEN Rat(0, 1)
    ELSE Quotient(Total([i \in DOMAIN results |-> results[i].confidence]),
                  Len(results))

\* The health records a caller passes to orchestrateAnalysis: the two fields
\* the dependency impacts touch, glucose given or 0.
HealthData(systolic, glucose) ==
    [bloodPressureSystolic |-> Rat(systolic, 1), glucose |-> Rat(glucose, 1)]

OrchHealthRecords == {HealthData(120, 100), HealthData(120, 0)}

NoHealthData == HealthData(0, 0)

\* if (adjustedData.bloodPressureSystolic), if (adjustedData.glucose)
TruthyNumber(x) == x.den # 0 /\ x.num # 0

\* The loop of applyDependencyImpacts over the edges into the target.
RECURSIVE adjust(_, _, _)
adjust(adjustedData, relevantDependencies, existingResults) ==
    IF relevantDependencies = <<>> THEN adjustedData
    ELSE LET dependency == Head(relevantDependencies)
             found == {i \in DOMAIN existingResults :
                          existingResults[i].moduleId = dependency.sourceOrgan}
             sourceResult == existingResults[CHOOSE i \in found : TRUE]
             impactFactor ==
                 Quotient(IF sourceResult.riskScore = NaN THEN NaN
                          ELSE sourceResult.riskScore * dependency.strength,
                          100 * 100)
             next ==
                 IF found = {} \/ Truthy(sourceResult.error) THEN adjustedData
                 ELSE IF /\ dependency.dependencyType = "circulatory"
                         /\ TruthyNumber(adjustedData.bloodPressureSystolic)
                 THEN [adjustedData EXCEPT !.bloodPressureSystolic =
                          RatMul(@, RatAdd(Rat(1, 1),
                                           RatMul(impactFactor, Rat(1, 10))))]
                 ELSE IF /\ dependency.dependencyType = "metabolic"
                         /\ TruthyNumber(adjustedData.glucose)
                 THEN [adjustedData EXCEPT !.glucose =
                          RatMul(@, RatAdd(Rat(1, 1),
                                           RatMul(impactFactor, Rat(5, 100))))]
                 ELSE adjustedData
         IN  adjust(next, Tail(relevantDependencies), existingResults)

\* applyDependencyImpacts without the copy: adjustedData is healthData itself.
applyDependencyImpactsVariantAlias(healthData, targetModuleId, existingResults) ==
    [adjustedData |-> adjust(healthData, DepsOf(dependencies, targetModuleId),
                             existingResults),
     healthData   |-> adjust(healthData, DepsOf(dependencies, targetModuleId),
                             existingResults)]

\* applyDependencyImpacts: the adjusted copy it returns, and the caller's
\* record after the call.
applyDependencyImpacts(healthData, targetModuleId, existingResults) ==
    [adjustedData |-> adjust(healthData, DepsOf(dependencies, targetModuleId),
                             existingResults),
     healthData   |-> healthData]

\* The i-th unit of the path is called: with the adjusted copy in the
\* sequential branch, with healthData itself in the parallel branch.
OrchCall(run, i, organResults) ==
    IF run.config.enableDependencyAnalysis
    THEN LET applied == applyDependencyImpacts(run.healthData, run.path[i],
                                               SubSeq(organResults, 1, i - 1))
         IN  [run EXCEPT !.healthData = applied.healthData,
                         !.received = [@ EXCEPT ![i] = applied.adjustedData]]
    ELSE [run EXCEPT !.received = [@ EXCEPT ![i] = run.healthData]]

OrchNew(cfg) ==
    [status |-> "idle", config |-> cfg, path |-> <<>>, results |-> <<>>,
     pending |-> {}, hung |-> {}, raced |-> FALSE, organInteractions |-> <<>>,
     globalRiskScore |-> Rat(0, 1), globalConfidence |-> Rat(0, 1),
     healthData |-> NoHealthData, received |-> <<>>]

\* No orchestrateAnalysis call has been made.
OrchIdle == OrchNew(OrchDefaultConfig)

KeyIdle ==
    inputA = <<>> /\ inputB = <<>> /\ fingerprintA = NoKey /\ fingerprintB = NoKey

OrchConstructed ==
    /\ orchModules = <<>>
    /\ dependencies = defaultDependencies
    /\ interactions = defaultInteractions
    /\ analysisOrder = <<>>
    /\ orderComputed = FALSE
    /\ orch = OrchIdle

EngineIdle == EngineConstructed(CHOOSE cfg \in Configs : ~cfg.performanceMonitoring)

\* The number of analyzeHealth calls made so far.
Submitted == Cardinality({r \in Requests : req[r].status # "new"})

\* No request submitted yet: the phase in which a caller registers units.
Setup == \A r \in Requests : req[r].status = "new"

AnyOutcome == {Returned, TimedOut, Threw("Analysis failed"), Threw("")}

\* The steps the event loop takes on its own: settled calls, continuations.
EngineProgress ==
    \/ \E r \in Requests : \E i \in 1..Cardinality(EngineUnits) :
           \E o \in AnyOutcome : UnitSettles(r, i, o)
    \/ \E r \in Requests : CompleteAnalysis(r)
    \/ \E b \in loops : DrainFinish(b)
    \/ RunImmediate

(***************************************************************************)
(* Spec: an engine with the cache enabled, one drain slot, units            *)
(* registered before the first request; callers submit records while time  *)
(* passes and the cleanup interval fires.                                  *)
(***************************************************************************)
Init ==
    /\ KeyIdle /\ OrchConstructed
    /\ \E cfg \in Configs :
          /\ cfg.cacheEnabled /\ cfg.maxConcurrentAnalyses = 1
          /\ ~cfg.performanceMonitoring
          /\ EngineConstructed(cfg)

MaxAwaitedRequests == 3

\* The caller awaits each call before making the next one.
Awaited == \A r \in Requests : req[r].status \in {"new", "resolved", "rejected"}

Next ==
    \/ Setup /\ RegisterOnce("heart")
    \/ Awaited /\ Submitted < MaxAwaitedRequests /\ \E x \in InputIds : analyzeHealth(x)
    \/ EngineProgress
    \/ CleanupTimer
    \/ Tick

Spec == Init /\ [][Next]_vars

(***************************************************************************)
(* SpecScheduler: the queue and the drain loop under analyzeHealth calls   *)
(* and unit completions only, cache disabled so that every call is queued. *)
(***************************************************************************)
SchedulerInit ==
    /\ KeyIdle /\ OrchConstructed
    /\ \E cfg \in Configs :
          /\ ~cfg.cacheEnabled /\ cfg.cacheMaxSize = 1
          /\ ~cfg.performanceMonitoring
          /\ EngineConstructed(cfg)

SchedulerNext ==
    \/ Setup /\ RegisterOnce("heart")
    \/ analyzeHealth("x")
    \/ EngineProgress

SpecScheduler == SchedulerInit /\ [][SchedulerNext]_vars

(***************************************************************************)
(* SpecLifecycle: the same engine with reset() and destroy() called at any *)
(* time, and the event loop running every enabled callback eventually.     *)
(* The drain loop admits one request at a time or the widest batch.        *)
(***************************************************************************)
MaxLifecycleRequests == 2

LifecycleInit ==
    /\ KeyIdle /\ OrchConstructed
    /\ \E cfg \in Configs :
          /\ ~cfg.cacheEnabled /\ cfg.cacheMaxSize = 1
          /\ cfg.maxConcurrentAnalyses \in {1, MaxConcurrent}
          /\ ~cfg.performanceMonitoring
          /\ EngineConstructed(cfg)

LifecycleNext ==
    \/ Setup /\ RegisterOnce("heart")
    \/ Submitted < MaxLifecycleRequests /\ analyzeHealth("x")
    \/ EngineProgress
    \/ reset
    \/ destroy

SpecLifecycle ==
    /\ LifecycleInit /\ [][LifecycleNext]_vars
    /\ WF_vars(EngineProgress)

(***************************************************************************)
(* SpecFanout: requests over both test units, registered in either order,  *)
(* with every way each call can end.                                       *)
(***************************************************************************)
MaxFanoutRequests == 2

FanoutInit ==
    /\ KeyIdle /\ OrchConstructed
    /\ \E cfg \in Configs :
          /\ cfg.maxConcurrentAnalyses = 1 /\ cfg.cacheMaxSize = 1
          /\ ~cfg.performanceMonitoring
          /\ EngineConstructed(cfg)

FanoutNext ==
    \/ Setup /\ \E u \in EngineUnits : RegisterOnce(u)
    \/ Submitted < MaxFanoutRequests /\ \E x \in {"x", "z"} : analyzeHealth(x)
    \/ EngineProgress

SpecFanout == FanoutInit /\ [][FanoutNext]_vars

(***************************************************************************)
(* SpecKey: generateCacheKey applied to two health records                 *)
(***************************************************************************)
KeyInit ==
    /\ inputA \in HealthRecords
    /\ inputB \in HealthRecords
    /\ fingerprintA = NoKey
    /\ fingerprintB = NoKey
    /\ OrchConstructed
    /\ EngineIdle

FingerprintA ==
    /\ fingerprintA = NoKey
    /\ fingerprintA' = generateCacheKey(inputA)
    /\ UNCHANGED <<inputA, inputB, fingerprintB, orchVars, engineVars>>

FingerprintB ==
    /\ fingerprintB = NoKey
    /\ fingerprintB' = generateCacheKey(inputB)
    /\ UNCHANGED <<inputA, inputB, fingerprintA, orchVars, engineVars>>

KeyNext == FingerprintA \/ FingerprintB

SpecKey == KeyInit /\ [][KeyNext]_vars

(***************************************************************************)
(* SpecOrder: the orchestrator's registry and edges, and the order         *)
(* calculateAnalysisOrder returns for them                                 *)
(***************************************************************************)
OrchRegisterModule(id) ==
    /\ id \notin Range(orchModules)
    /\ orchModules' = Append(orchModules, id)
    /\ analysisOrder' = <<>>
    /\ orderComputed' = FALSE
    /\ UNCHANGED <<dependencies, interactions, orch, keyVars, engineVars>>

OrchUnregisterModule(id) ==
    /\ id \in Range(orchModules)
    /\ orchModules' = SelectSeq(orchModules, LAMBDA m : m # id)
    /\ analysisOrder' = <<>>
    /\ orderComputed' = FALSE
    /\ UNCHANGED <<dependencies, interactions, orch, keyVars, engineVars>>

addDependency(dep) ==
    /\ dep.sourceOrgan \in Range(orchModules)
    /\ dep.targetOrgan \in Range(orchModules)
    /\ Len(dependencies) < Len(defaultDependencies) + MaxCustomDeps
    /\ dependencies' = Append(dependencies, dep)
    /\ analysisOrder' = <<>>
    /\ orderComputed' = FALSE
    /\ UNCHANGED <<orchModules, interactions, orch, keyVars, engineVars>>

\* The order orchestrateAnalysis obtains for the current registry and edges.
CalculateAnalysisOrder ==
    /\ ~orderComputed
    /\ analysisOrder' = calculateAnalysisOrder(orchModules, dependencies)
    /\ orderComputed' = TRUE
    /\ UNCHANGED <<orchModules, dependencies, interactions, orch, keyVars, engineVars>>

OrderInit == KeyIdle /\ OrchConstructed /\ EngineIdle

OrderNext ==
    \/ \E id \in OrganIds : OrchRegisterModule(id)
    \/ \E id \in OrganIds : OrchUnregisterModule(id)
    \/ \E dep \in CustomDependencies : addDependency(dep)
    \/ CalculateAnalysisOrder

SpecOrder == OrderInit /\ [][OrderNext]_vars

(***************************************************************************)
(* OrganOrchestrator: the steps of orchestrateAnalysis                     *)
(***************************************************************************)
\* The rest of orchestrateAnalysis once organResults is complete.
OrchComplete(run, organResults) ==
    [run EXCEPT !.status = "complete",
                !.results = organResults,
                !.pending = {},
                !.organInteractions =
                    calculateOrganInteractions(interactions, organResults, run.config),
                !.globalRiskScore =
                    calculateGlobalRiskScore(
                        OrchValidResults(organResults),
                        calculateOrganInteractions(interactions, organResults,
                                                   run.config)),
                !.globalConfidence =
                    calculateGlobalConfidence(OrchValidResults(organResults))]

\* Whether the branch races each analyze() call against dependencyTimeout.
Raced(cfg) == cfg.enableDependencyAnalysis

\* What follows one settled call: the next unit of the order is called, or
\* Promise.all is still waiting, or organResults is complete.
OrchAfter(run, i, organResults) ==
    IF run.config.enableDependencyAnalysis
    THEN IF i < Len(run.path)
         THEN OrchCall([run EXCEPT !.results = organResults, !.pending = {i + 1}],
                       i + 1, organResults)
         ELSE OrchComplete(run, organResults)
    ELSE IF run.pending \ {i} # {}
         THEN [run EXCEPT !.results = organResults, !.pending = @ \ {i}]
         ELSE OrchComplete(run, organResults)

\* The calls in flight at the first await without the await in the loop.
FirstCallsVariantAll(cfg, path) == DOMAIN path

\* The calls in flight when orchestrateAnalysis first awaits: the first unit
\* of the order in the sequential loop, every unit under Promise.all.
FirstCalls(cfg, path) ==
    IF cfg.enableDependencyAnalysis THEN {1} ELSE DOMAIN path

\* this.modules.entries().map(async ...): every unit from the i-th on is
\* called, one after another, before the first await is resumed.
RECURSIVE CallAll(_, _)
CallAll(run, i) ==
    IF i > Len(run.path) THEN run
    ELSE CallAll(OrchCall(run, i, run.results), i + 1)

\* orchestrateAnalysis(healthData) up to its first await.
orchestrateAnalysis(healthData) ==
    /\ orch.status \in {"idle", "complete"}
    /\ LET path == IF orch.config.enableDependencyAnalysis
                   THEN calculateAnalysisOrder(orchModules, dependencies)
                   ELSE orchModules
           run  == [OrchNew(orch.config) EXCEPT
                        !.status  = "running",
                        !.path    = path,
                        !.results = [i \in DOMAIN path |-> OrchRunning(path[i])],
                        !.raced   = Raced(orch.config),
                        !.pending = FirstCalls(orch.config, path),
                        !.healthData = healthData,
                        !.received = [i \in DOMAIN path |-> NoHealthData]]
       IN  orch' = IF path = <<>> THEN OrchComplete(run, <<>>)
                   ELSE IF orch.config.enableDependencyAnalysis
                   THEN OrchCall(run, 1, run.results)
                   ELSE CallAll(run, 1)
    /\ UNCHANGED <<orchModules, dependencies, interactions, analysisOrder,
                   orderComputed, keyVars, engineVars>>

\* One analyze() call of the run returns or rejects.
OrchUnitSettles(i, outcome) ==
    /\ orch.status = "running"
    /\ i \in orch.pending \ orch.hung
    /\ outcome \in OrchUnitOutcomes(orch.path[i])
    /\ orch' = OrchAfter(orch, i,
                   [orch.results EXCEPT ![i] = OrchResultOf(orch.path[i], outcome)])
    /\ UNCHANGED <<orchModules, dependencies, interactions, analysisOrder,
                   orderComputed, keyVars, engineVars>>

\* One analyze() call of the run turns out never to return.
OrchUnitHangs(i) ==
    /\ orch.status = "running"
    /\ i \in orch.pending \ orch.hung
    /\ OrchCanHang(orch.path[i])
    /\ orch' = [orch EXCEPT !.hung = @ \cup {i}]
    /\ UNCHANGED <<orchModules, dependencies, interactions, analysisOrder,
                   orderComputed, keyVars, engineVars>>

\* The setTimeout callback of a race whose analyze() call has not settled.
OrchTimeout(i) ==
    /\ orch.status = "running"
    /\ orch.raced
    /\ i \in orch.pending
    /\ orch' = OrchAfter([orch EXCEPT !.hung = @ \ {i}], i,
                   [orch.results EXCEPT ![i] = OrchResultOf(orch.path[i], ModuleTimeout)])
    /\ UNCHANGED <<orchModules, dependencies, interactions, analysisOrder,
                   orderComputed, keyVars, engineVars>>

\* OrganOrchestrator.reset(): the registry is cleared and the built-in edges
\* and interactions are installed again.
OrchReset ==
    /\ orchModules' = <<>>
    /\ dependencies' = defaultDependencies
    /\ interactions' = defaultInteractions
    /\ analysisOrder' = <<>>
    /\ orderComputed' = FALSE
    /\ UNCHANGED <<orch, keyVars, engineVars>>

(***************************************************************************)
(* SpecOrch: an orchestrator in either mode, with or without interaction   *)
(* modelling; a caller registers units, runs analyses one after another    *)
(* and resets the orchestrator between them.                               *)
(***************************************************************************)
OrchInit ==
    /\ KeyIdle /\ EngineIdle
    /\ orchModules = <<>>
    /\ dependencies = defaultDependencies
    /\ interactions = defaultInteractions
    /\ analysisOrder = <<>>
    /\ orderComputed = FALSE
    /\ \E cfg \in OrchConfigs : orch = OrchNew(cfg)

OrchNext ==
    \/ orch.status # "running" /\ \E id \in OrchUnits : OrchRegisterModule(id)
    \/ orch.status # "running" /\ OrchReset
    \/ \E healthData \in OrchHealthRecords : orchestrateAnalysis(healthData)
    \/ \E i \in DOMAIN orch.path : \E outcome \in OrchUnitOutcomes(orch.path[i]) :
           OrchUnitSettles(i, outcome)
    \/ \E i \in DOMAIN orch.path : OrchUnitHangs(i)
    \/ \E i \in DOMAIN orch.path : OrchTimeout(i)

SpecOrch == OrchInit /\ [][OrchNext]_vars

(***************************************************************************)
(* SpecReset: an engine with the cache and performance monitoring enabled; *)
(* reset() and destroy() are called at any time while requests are queued  *)
(* or executing.                                                           *)
(***************************************************************************)
MaxResetRequests == 3

ResetInit ==
    /\ KeyIdle /\ OrchConstructed
    /\ \E cfg \in Configs :
          /\ cfg.cacheEnabled /\ cfg.cacheMaxSize = 1
          /\ cfg.performanceMonitoring
          /\ cfg.maxConcurrentAnalyses = 1
          /\ EngineConstructed(cfg)

ResetNext ==
    \/ Setup /\ RegisterOnce("heart")
    \/ Submitted < MaxResetRequests /\ analyzeHealth("x")
    \/ EngineProgress
    \/ reset
    \/ destroy

SpecReset == ResetInit /\ [][ResetNext]_vars

(***************************************************************************)
(* SpecRegistry: units are registered and unregistered at any time, also   *)
(* twice or when absent, on an engine with or without performance          *)
(* monitoring that is running requests.                                    *)
(***************************************************************************)
MaxRegistryEvents   == 3
MaxRegistryRequests == 2

RegistryInit ==
    /\ KeyIdle /\ OrchConstructed
    /\ \E cfg \in Configs :
          /\ ~cfg.cacheEnabled /\ cfg.cacheMaxSize = 1
          /\ cfg.maxConcurrentAnalyses = 1
          /\ EngineConstructed(cfg)

RegistryEvents == emitted.moduleRegistered + emitted.moduleUnregistered

RegistryNext ==
    \/ RegistryEvents < MaxRegistryEvents /\ \E u \in EngineUnits : registerModule(u)
    \/ RegistryEvents < MaxRegistryEvents /\ \E u \in EngineUnits : unregisterModule(u)
    \/ Submitted < MaxRegistryRequests /\ analyzeHealth("x")
    \/ EngineProgress

SpecRegistry == RegistryInit /\ [][RegistryNext]_vars

(***************************************************************************)
(* DigitalTwinEngine: updateConfig                                         *)
(***************************************************************************)
Update(field, value) == [field |-> field, value |-> value]

\* The partial configurations a caller passes to updateConfig.
ConfigUpdates ==
    { Update("maxConcurrentAnalyses", 0),
      Update("maxConcurrentAnalyses", MaxConcurrent),
      Update("cacheMaxSize", -1),
      Update("cacheMaxSize", 0),
      Update("cacheEnabled", FALSE) }

\* { ...this.config, ...newConfig }
MergeConfig(cfg, upd) == [cfg EXCEPT ![upd.field] = upd.value]

updateConfig(upd) ==
    /\ config' = MergeConfig(config, upd)
    /\ cache' = IF upd.field = "cacheEnabled" /\ upd.value = FALSE /\ config.cacheEnabled
                THEN <<>> ELSE cache
    /\ lastCall' = Call("updateConfig", upd.field, "")
    /\ UNCHANGED <<keyVars, orchVars, metrics, emitted, modules, analysisQueue,
                   isProcessingQueue, loops, immediates, req, state, now,
                   cleanupInterval>>

(***************************************************************************)
(* SpecConfig: a caller changes the configuration of a running engine.     *)
(***************************************************************************)
MaxConfigRequests == 2

ConfigInit ==
    /\ KeyIdle /\ OrchConstructed
    /\ \E cfg \in Configs :
          /\ cfg.cacheEnabled /\ cfg.cacheMaxSize = 1
          /\ cfg.maxConcurrentAnalyses = 1
          /\ ~cfg.performanceMonitoring
          /\ EngineConstructed(cfg)

ConfigNext ==
    \/ Setup /\ RegisterOnce("heart")
    \/ Submitted < MaxConfigRequests /\ \E x \in {"x", "z"} : analyzeHealth(x)
    \/ EngineProgress
    \/ \E r \in Requests : RetryAnalysis(r)
    \/ \E upd \in ConfigUpdates : updateConfig(upd)

SpecConfig == ConfigInit /\ [][ConfigNext]_vars

(***************************************************************************)
(* SpecInteract: calculateOrganInteractions and calculateGlobalRiskScore   *)
(* applied to the result sets of whole orchestrateAnalysis calls. A caller *)
(* registers units and interactions, then runs one analysis whose          *)
(* analyze() calls return a score or reject.                               *)
(***************************************************************************)
MaxCustomInteractions == 2

\* The interactions a caller adds: the pair of the worked scenario (two units
\* with impactFactor 1.2) and an antagonistic pair.
CustomInteractions ==
    { Interaction("cardiovascular", "hepatic", "synergistic", Rat(120, 100)),
      Interaction("hepatic", "pulmonary", "antagonistic", Rat(90, 100)) }

\* addInteraction(interaction); the call throws, changing nothing, when one
\* of the organs is not registered.
addInteraction(interaction) ==
    /\ \A k \in DOMAIN interaction.organs :
           interaction.organs[k] \in Range(orchModules)
    /\ Len(interactions) < Len(defaultInteractions) + MaxCustomInteractions
    /\ interactions' = Append(interactions, interaction)
    /\ UNCHANGED <<orchModules, dependencies, analysisOrder, orderComputed,
                   orch, keyVars, engineVars>>

\* What an analyze() call yields in these runs: a result with one of the
\* scores, or a rejection with or without a message on the Error.
AnalyzeScores == {20, 80, 90}

ReturnedScore(s) == [kind |-> "returned", message |-> "", riskScore |-> s]

\* analyze() resolving with a value that has no riskScore and no confidence
\* ({} for instance): both read as undefined in the stored entry.
ReturnedInvalid == [kind |-> "invalid", message |-> ""]

AnalyzeOutcomes ==
    {ReturnedScore(s) : s \in AnalyzeScores}
        \cup {Threw("Analysis failed"), Threw("")}
        \cup {ReturnedInvalid}

\* organResults.set(moduleId, {...result, moduleId, ...}), or the fallback.
OrchEntryOf(u, outcome) ==
    IF outcome.kind = "returned"
    THEN [moduleId |-> u, riskScore |-> outcome.riskScore,
          confidence |-> organConfidenceOf(u), error |-> Undefined]
    ELSE IF outcome.kind = "invalid"
    THEN [moduleId |-> u, riskScore |-> NaN, confidence |-> NaN,
          error |-> Undefined]
    ELSE OrchResultOf(u, outcome)

\* orchestrateAnalysis(healthData) from the call to the returned result, the
\* analyze() call of the i-th unit of the path ending as outcomes[i].
OrchRun(outcomes) ==
    /\ orch.status \in {"idle", "complete"}
    /\ LET path == IF orch.config.enableDependencyAnalysis
                   THEN calculateAnalysisOrder(orchModules, dependencies)
                   ELSE orchModules
           run  == [OrchNew(orch.config) EXCEPT
                        !.path  = path,
                        !.raced = Raced(orch.config)]
       IN  /\ DOMAIN outcomes = DOMAIN path
           /\ orch' = OrchComplete(run,
                          [i \in DOMAIN path |-> OrchEntryOf(path[i], outcomes[i])])
    /\ UNCHANGED <<orchModules, dependencies, interactions, analysisOrder,
                   orderComputed, keyVars, engineVars>>

InteractNext ==
    \/ orch.status = "idle" /\ \E id \in OrchUnits : OrchRegisterModule(id)
    \/ orch.status = "idle" /\ \E x \in CustomInteractions : addInteraction(x)
    \/ orch.status = "idle" /\ \E outcomes \in [1..Len(orchModules) -> AnalyzeOutcomes] :
                                    OrchRun(outcomes)

SpecInteract == OrchInit /\ [][InteractNext]_vars

(***************************************************************************)
(* SpecComplete: an engine with the cache enabled whose registry changes   *)
(* between and during analyzeHealth calls for one record.                  *)
(***************************************************************************)
MaxCompleteEvents   == 3
MaxCompleteRequests == 2

CompleteInit ==
    /\ KeyIdle /\ OrchConstructed
    /\ \E cfg \in Configs :
          /\ cfg.cacheEnabled /\ cfg.cacheMaxSize = 1
          /\ cfg.maxConcurrentAnalyses = 1
          /\ ~cfg.performanceMonitoring
          /\ EngineConstructed(cfg)

CompleteNext ==
    \/ RegistryEvents < MaxCompleteEvents /\ \E u \in EngineUnits : registerModule(u)
    \/ RegistryEvents < MaxCompleteEvents /\ \E u \in EngineUnits : unregisterModule(u)
    \/ Submitted < MaxCompleteRequests /\ analyzeHealth("x")
    \/ EngineProgress

SpecComplete == CompleteInit /\ [][CompleteNext]_vars

(***************************************************************************)
(* SpecSweep: an engine constructed with the cache enabled or disabled; a  *)
(* caller switches the cache on and off and submits one record while time  *)
(* passes and the cleanup interval, if one was started, fires.             *)
(***************************************************************************)
MaxSweepRequests == 2

SweepInit ==
    /\ KeyIdle /\ OrchConstructed
    /\ \E cfg \in Configs :
          /\ cfg.cacheMaxSize = 1
          /\ cfg.maxConcurrentAnalyses = 1
          /\ ~cfg.performanceMonitoring
          /\ EngineConstructed(cfg)

SweepNext ==
    \/ Setup /\ RegisterOnce("heart")
    \/ Submitted < MaxSweepRequests /\ Awaited /\ analyzeHealth("x")
    \/ EngineProgress
    \/ \E enabled \in BOOLEAN : updateConfig(Update("cacheEnabled", enabled))
    \/ CleanupTimer
    \/ Tick

SpecSweep == SweepInit /\ [][SweepNext]_vars

(***************************************************************************)
(* SpecShrink: a caller changes cacheMaxSize between awaited requests for  *)
(* three inputs with distinct fingerprints, on an engine whose cache is    *)
(* enabled.                                                                *)
(***************************************************************************)
MaxShrinkRequests == 3

ShrinkInputs == {"x", "z", "w"}

ShrinkInit ==
    /\ KeyIdle /\ OrchConstructed
    /\ \E cfg \in Configs :
          /\ cfg.cacheEnabled /\ cfg.cacheMaxSize = MaxCacheSize
          /\ cfg.maxConcurrentAnalyses = 1
          /\ ~cfg.performanceMonitoring
          /\ EngineConstructed(cfg)

ShrinkNext ==
    \/ Setup /\ RegisterOnce("heart")
    \/ Submitted < MaxShrinkRequests /\ Awaited
          /\ \E x \in ShrinkInputs : analyzeHealth(x)
    \/ EngineProgress
    \/ \E size \in 1..MaxCacheSize : updateConfig(Update("cacheMaxSize", size))

SpecShrink == ShrinkInit /\ [][ShrinkNext]_vars

(***************************************************************************)
(* SpecDuplicate: a caller asks for the same record again without awaiting *)
(* the first call, on an engine with the cache enabled. The clock stands   *)
(* still and the cache is never cleared, so a call made after an earlier   *)
(* one completed is answered from the cache.                               *)
(***************************************************************************)
MaxDuplicateRequests == 3

DuplicateInit ==
    /\ KeyIdle /\ OrchConstructed
    /\ \E cfg \in Configs :
          /\ cfg.cacheEnabled /\ cfg.cacheMaxSize = 1
          /\ ~cfg.performanceMonitoring
          /\ EngineConstructed(cfg)

DuplicateNext ==
    \/ Setup /\ RegisterOnce("heart")
    \/ Submitted < MaxDuplicateRequests /\ analyzeHealth("x")
    \/ EngineProgress

SpecDuplicate == DuplicateInit /\ [][DuplicateNext]_vars

(***************************************************************************)
(* DigitalTwinEngine: healthCheck                                          *)
(***************************************************************************)
\* The details object. cache.size >= cacheMaxSize * 0.9 is compared in
\* tenths; errorRate and averageProcessingTime are means, kept as their sums
\* over totalAnalyses.
healthDetails ==
    [modulesRegistered |-> Len(modules),
     cacheHealth |->
        IF config.cacheEnabled
        THEN (IF Len(cache) * 10 >= config.cacheMaxSize * 9 THEN "full" ELSE "ok")
        ELSE "disabled",
     queueHealth |->
        IF Len(analysisQueue) > 10 THEN "backlogged"
        ELSE (IF isProcessingQueue THEN "ok" ELSE "stalled"),
     performanceHealth |->
        IF metrics.errorRate > 10 * metrics.totalAnalyses THEN "failing"
        ELSE (IF metrics.averageProcessingTime > 10000 * metrics.totalAnalyses
              THEN "slow" ELSE "ok")]

\* Object.values(details).filter(v => v === 'ok').length against 3 and 2;
\* modulesRegistered is a number and never equals 'ok'.
healthCheckStatus(details) ==
    LET healthyCount ==
            Cardinality({f \in {"cacheHealth", "queueHealth", "performanceHealth"} :
                            details[f] = "ok"})
    IN  IF healthyCount >= 3 THEN "healthy"
        ELSE IF healthyCount >= 2 THEN "degraded"
        ELSE "unhealthy"

\* healthCheck(): the returned status is kept with the call.
healthCheck ==
    /\ lastCall' = Call("healthCheck", healthCheckStatus(healthDetails), "")
    /\ UNCHANGED <<keyVars, orchVars, metrics, emitted, config, modules, cache,
                   analysisQueue, isProcessingQueue, loops, immediates, req,
                   state, now, cleanupInterval>>

(***************************************************************************)
(* SpecHealth: healthCheck() called at any time on an engine with the      *)
(* cache enabled, between and during requests for two records.             *)
(***************************************************************************)
MaxHealthRequests == 2

HealthInit ==
    /\ KeyIdle /\ OrchConstructed
    /\ \E cfg \in Configs :
          /\ cfg.cacheEnabled
          /\ cfg.maxConcurrentAnalyses = 1
          /\ EngineConstructed(cfg)

HealthNext ==
    \/ Setup /\ RegisterOnce("heart")
    \/ Submitted < MaxHealthRequests /\ \E x \in {"x", "z"} : analyzeHealth(x)
    \/ EngineProgress
    \/ healthCheck

SpecHealth == HealthInit /\ [][HealthNext]_vars

(***************************************************************************)
(* Properties                                                              *)
(***************************************************************************)

\* C1: under analyzeHealth calls and unit completions, with the configuration
\* unchanged, the number of requests executing at once never exceeds
\* maxConcurrentAnalyses.
ConcurrencyBound ==
    Cardinality(Executing) <= config.maxConcurrentAnalyses

\* Two requests execute side by side under a limit of two.
ConcurrencyBoundWitness ==
    /\ config.maxConcurrentAnalyses = 2
    /\ Cardinality(Executing) = 2
    /\ \E r \in Requests : Settled(req[r])

\* C2: with a valid configuration and a fair event loop, every request that
\* analyzeHealth accepted (queued or executing) is eventually resolved or
\* rejected, whatever units hang and whenever reset() or destroy() is called.
EventualSettlement ==
    \A r \in Requests :
        (req[r].status \in {"queued", "executing", "retryWait"}) ~> Settled(req[r])

\* A queued request was rejected by reset(), and the request whose unit hung
\* has timed out and been resolved.
EventualSettlementWitness ==
    \E r, q \in Requests :
        /\ q # r
        /\ req[q].status = "rejected"
        /\ req[q].error = "Engine reset - analysis cancelled"
        /\ req[r].status = "resolved"
        /\ req[r].results # <<>>
        /\ Truthy(req[r].results[1].error)

\* C3: a request over a unit X that fails and a unit Y that succeeds is
\* resolved, not rejected; its result set holds a fallback entry for X (score
\* 0, confidence 0, failure reason set) and Y's normal entry, and the global
\* score and confidence are those of Y alone.
PartialFailureIsolation ==
    \A r \in Requests :
        /\ req[r].status # "rejected"
        /\ (req[r].status = "resolved" /\ ~req[r].fromCache) =>
               \A i, j \in DOMAIN req[r].results :
                   (req[r].results[i].error.present /\ ~req[r].results[j].error.present) =>
                       /\ req[r].results[i].riskScore = 0
                       /\ req[r].results[i].confidence = 0
                       /\ Truthy(req[r].results[i].error)
                       /\ req[r].globalRiskScore = req[r].results[j].riskScore
                       /\ req[r].globalConfidence = req[r].results[j].confidence

\* X rejected with an Error whose message is empty, Y returned, and the
\* resolved request's global score is not Y's.
PartialFailureMiscounted ==
    \E r \in Requests :
        /\ req[r].status = "resolved"
        /\ Len(req[r].results) = 2
        /\ \E i, j \in DOMAIN req[r].results :
               /\ req[r].results[i].error = Message("")
               /\ ~req[r].results[j].error.present
               /\ req[r].globalRiskScore # req[r].results[j].riskScore

\* C4: with the cache enabled, a call analyzeHealth(x) made after an earlier
\* analyzeHealth(x) completed, within the TTL and with no cache clear in
\* between, returns the same result set and calls no unit; the first call
\* called each registered unit once.
CacheIdempotence ==
    [][\A q, r \in Requests :
          ( /\ r = q + 1
            /\ req[q].status = "resolved" /\ ~req[q].fromCache
            /\ req[r].status = "new" /\ req'[r].status # "new"
            /\ req'[r].healthData = req[q].healthData
            /\ now - req[q].settledAt <= config.cacheTTL )
          => /\ req'[r].status = "resolved"
             /\ req'[r].results = req[q].results
             /\ \A u \in EngineUnits :
                    /\ req'[r].calls[u] = 0
                    /\ req[q].calls[u] = IF u \in Range(req[q].units) THEN 1 ELSE 0
      ]_vars

\* The second call for the same record was answered with the first call's
\* results; the unit ran once.
CacheIdempotenceWitness ==
    \E q, r \in Requests :
        /\ r = q + 1
        /\ req[q].status = "resolved" /\ ~req[q].fromCache
        /\ req[r].status = "resolved" /\ req[r].fromCache
        /\ req[r].healthData = req[q].healthData
        /\ req[q].results # <<>>
        /\ req[r].results = req[q].results
        /\ req[q].calls["heart"] = 1
        /\ req[r].calls["heart"] = 0
        /\ req[r].settledAt = req[q].settledAt + config.cacheTTL

\* C5: a record y that differs from an earlier cached record x in the value
\* of some field, top-level or nested, is never answered from x's cache
\* entry: every request answered from the cache follows a computed request
\* for a field-wise equal record, and records that are not field-wise equal
\* have distinct fingerprints.
CacheInvalidation ==
    /\ \A r \in Requests :
           (req[r].status = "resolved" /\ req[r].fromCache) =>
               \E q \in 1..(r - 1) :
                   /\ req[q].status = "resolved" /\ ~req[q].fromCache
                   /\ FieldwiseEqual(HealthDataOf(req[q].healthData),
                                     HealthDataOf(req[r].healthData))
    /\ \A q, r \in Requests :
           ( /\ req[q].status # "new" /\ req[r].status # "new"
             /\ ~FieldwiseEqual(HealthDataOf(req[q].healthData),
                                HealthDataOf(req[r].healthData)) )
           => CacheKeyOf[req[q].healthData] # CacheKeyOf[req[r].healthData]

\* The record with weight 75 was answered, without any computation, with the
\* results computed for the record with weight 70.
CacheServedOtherRecord ==
    /\ req[1].status = "resolved" /\ ~req[1].fromCache /\ req[1].healthData = "x"
    /\ req[2].status = "resolved" /\ req[2].fromCache /\ req[2].healthData = "y"
    /\ req[2].results = req[1].results
    /\ req[2].calls["heart"] = 0

\* C6: two records that are field-wise equal have the same fingerprint,
\* whatever the order in which their fields were inserted.
FingerprintDeterminism ==
    ( /\ fingerprintA # NoKey
      /\ fingerprintB # NoKey
      /\ FieldwiseEqual(inputA, inputB) )
    => fingerprintA = fingerprintB

\* Two records with the same fields inserted in different orders, at the top
\* level and in the nested markers, got one fingerprint.
FingerprintDeterminismWitness ==
    /\ fingerprintA # NoKey
    /\ fingerprintA = fingerprintB
    /\ FieldwiseEqual(inputA, inputB)
    /\ ObjectKeys(inputA) # ObjectKeys(inputB)
    /\ HasProp(inputA, inflammatoryMarkers)
    /\ ObjectKeys(GetProp(inputA, inflammatoryMarkers).o)
         # ObjectKeys(GetProp(inputB, inflammatoryMarkers).o)

\* C7: with cacheMaxSize = M >= 1 fixed, the store never holds more than M
\* entries, and an entry dropped by an insertion has the smallest creation
\* timestamp of the store.
EvictionBound ==
    /\ [](Len(cache) <= config.cacheMaxSize)
    /\ [][(\E r \in Requests : req[r].status = "executing" /\ req'[r].status = "resolved")
            => \A i \in DOMAIN cache :
                  (\A j \in DOMAIN cache' : cache'[j].hash # cache[i].hash)
                  => \A k \in DOMAIN cache : cache[i].timestamp <= cache[k].timestamp
         ]_vars

\* Three distinct fingerprints were inserted under M = 2 while none was
\* expired; the first one is gone, the two later ones are kept.
EvictionBoundWitness ==
    /\ config.cacheMaxSize = 2
    /\ now <= config.cacheTTL
    /\ \A r \in 1..3 : req[r].status = "resolved" /\ ~req[r].fromCache
    /\ req[1].settledAt < req[2].settledAt
    /\ Len(cache) = 2
    /\ cache[1].hash = CacheKeyOf[req[2].healthData]
    /\ cache[2].hash = CacheKeyOf[req[3].healthData]
    /\ CacheIndex(cache, CacheKeyOf[req[1].healthData]) = 0

\* C8: a lookup returns the stored result set exactly when an entry exists
\* for the fingerprint and now - createdAt <= cacheTTL; a lookup that finds
\* an older entry is a miss and removes the entry.
TTLExpiry ==
    [][\A r \in Requests :
          (req[r].status = "new" /\ req'[r].status # "new") =>
              LET key   == CacheKeyOf[req'[r].healthData]
                  fresh == {i \in DOMAIN cache :
                               /\ cache[i].hash = key
                               /\ now - cache[i].timestamp <= config.cacheTTL}
                  stale == {i \in DOMAIN cache :
                               /\ cache[i].hash = key
                               /\ now - cache[i].timestamp > config.cacheTTL}
              IN  /\ (req'[r].status = "resolved" /\ req'[r].fromCache) <=> fresh # {}
                  /\ \A i \in fresh : req'[r].results = cache[i].data
                  /\ stale # {} =>
                         /\ req'[r].status \in {"queued", "executing"}
                         /\ \A j \in DOMAIN cache' : cache'[j].hash # key
      ]_vars

\* One record asked three times: computed, then answered from the entry aged
\* exactly cacheTTL, then found expired and computed again.
TTLExpiryWitness ==
    /\ \A r \in 1..3 : req[r].healthData = "x"
    /\ req[1].status = "resolved" /\ ~req[1].fromCache
    /\ req[2].status = "resolved" /\ req[2].lookup = "hit"
    /\ req[2].settledAt = req[1].settledAt + config.cacheTTL
    /\ req[3].lookup = "expired"
    /\ req[3].status = "executing"
    /\ cache = <<>>

\* Edges whose two endpoints are registered, as <<source, target>> pairs.
RegisteredEdges ==
    {<<dependencies[i].sourceOrgan, dependencies[i].targetOrgan>> :
        i \in {k \in DOMAIN dependencies :
                  /\ dependencies[k].sourceOrgan \in Range(orchModules)
                  /\ dependencies[k].targetOrgan \in Range(orchModules)}}

\* Pairs joined by a path of at most n + 1 edges of R.
RECURSIVE Paths(_, _)
Paths(R, n) ==
    IF n = 0 THEN R
    ELSE LET P == Paths(R, n - 1)
         IN  P \cup {<<e[1], f[2]>> : <<e, f>> \in {g \in P \X R : g[1][2] = g[2][1]}}

Acyclic(R) == \A id \in OrganIds : <<id, id>> \notin Paths(R, Cardinality(OrganIds))

Before(order, a, b) ==
    \E i, j \in DOMAIN order : i < j /\ order[i] = a /\ order[j] = b

\* C9: when the edges between registered units form no cycle, the analysis
\* order has the source of every such edge before its target; with the edges
\* hepatic -> cardiovascular and cardiovascular -> neurological the order is
\* hepatic, cardiovascular, neurological for every registration order.
DependencyOrdering ==
    orderComputed =>
        /\ Acyclic(RegisteredEdges) =>
               \A e \in RegisteredEdges : Before(analysisOrder, e[1], e[2])
        /\ ( /\ Range(orchModules) = {"hepatic", "cardiovascular", "neurological"}
             /\ dependencies = defaultDependencies )
           => analysisOrder = <<"hepatic", "cardiovascular", "neurological">>

\* The three units of the chain were registered in the reverse order and
\* came out in dependency order.
DependencyOrderingWitness ==
    /\ orderComputed
    /\ orchModules = <<"neurological", "cardiovascular", "hepatic">>
    /\ Acyclic(RegisteredEdges)
    /\ Cardinality(RegisteredEdges) = 2
    /\ analysisOrder = <<"hepatic", "cardiovascular", "neurological">>

\* C10: for any edge set, cyclic ones included, calculateAnalysisOrder
\* returns a permutation of the registered ids: each registered id once and
\* no other id.
CycleSafety ==
    orderComputed =>
        /\ Len(analysisOrder) = Len(orchModules)
        /\ Range(analysisOrder) = Range(orchModules)

\* An order was returned for all six units with the default cycles, an added
\* two-cycle between neurological and hepatic, and nothing left out.
CycleSafetyWitness ==
    /\ orderComputed
    /\ Range(orchModules) = OrganIds
    /\ <<"neurological", "hepatic">> \in RegisteredEdges
    /\ <<"hepatic", "neurological">> \in RegisteredEdges
    /\ <<"cardiovascular", "renal">> \in RegisteredEdges
    /\ <<"renal", "cardiovascular">> \in RegisteredEdges
    /\ ~Acyclic(RegisteredEdges)
    /\ Len(analysisOrder) = 6

\* C11: a unit whose call fails is invoked again within the same request, up
\* to retryAttempts times in total, and its fallback entry is substituted only
\* after all attempts have failed: a computed result set holds a fallback
\* entry for a unit only if the unit was called retryAttempts times.
RetryBeforeFallback ==
    \A r \in Requests :
        (req[r].status = "resolved" /\ ~req[r].fromCache) =>
            \A i \in DOMAIN req[r].results :
                req[r].results[i].error # Undefined =>
                    req[r].calls[req[r].units[i]] = config.retryAttempts

\* A request was resolved with liver's fallback entry after a single call of
\* liver and a single run of performAnalysis.
FallbackAfterOneCall ==
    \E r \in Requests :
        /\ req[r].status = "resolved" /\ ~req[r].fromCache
        /\ req[r].attempt = 1
        /\ \E i \in DOMAIN req[r].results :
              /\ req[r].units[i] = "liver"
              /\ req[r].results[i].error = Message("Analysis failed")
              /\ req[r].calls["liver"] = 1
              /\ config.retryAttempts = 3

\* C12: in every execution mode each unit call is raced against the
\* configured timeout, so a unit that never returns is treated as failed once
\* the timeout elapses: every orchestrator call that never returns is raced
\* against dependencyTimeout.
PerUnitTimeout ==
    \A i \in orch.hung : orch.raced

\* A parallel-mode run in which every other unit has settled and
\* cardiovascular never returns: nothing is left that can complete the run.
ParallelRunStuck ==
    /\ orch.status = "running"
    /\ ~orch.config.enableDependencyAnalysis
    /\ Len(orch.path) >= 2
    /\ orch.hung # {}
    /\ orch.pending = orch.hung
    /\ \A i \in orch.hung : ~ENABLED OrchTimeout(i)

\* C13: when reset() or destroy() is called, every request that is queued but
\* not yet started is rejected immediately with a cancellation error and the
\* queue is empty afterwards; none of those requests ever has its units
\* invoked.
Cancellation ==
    /\ [][(reset \/ destroy) =>
            /\ analysisQueue' = <<>>
            /\ \A r \in Range(analysisQueue) :
                  /\ req'[r].status = "rejected"
                  /\ req'[r].error \in {"Engine reset - analysis cancelled",
                                        "Engine destroyed - analysis cancelled"}]_vars
    /\ [](\A r \in Requests :
            req[r].error \in {"Engine reset - analysis cancelled",
                              "Engine destroyed - analysis cancelled"} =>
                /\ req[r].status = "rejected"
                /\ r \notin Range(analysisQueue)
                /\ req[r].attempt = 0
                /\ \A u \in EngineUnits : req[r].calls[u] = 0)

\* One queued request was cancelled by reset() and one by destroy(), while
\* the request that was executing ran its unit and was resolved.
CancellationWitness ==
    \E q, r, e \in Requests :
        /\ req[q].status = "rejected"
        /\ req[q].error = "Engine reset - analysis cancelled"
        /\ req[r].status = "rejected"
        /\ req[r].error = "Engine destroyed - analysis cancelled"
        /\ req[e].status = "resolved"
        /\ req[e].calls["heart"] = 1

\* C14: a request that is already executing when reset() or destroy() is
\* called finishes but its results are discarded: as long as no other call is
\* made after reset() or destroy(), the cache stays empty, and after reset()
\* the metrics and the global score stay as reset() left them.
ExecutingResultsDiscarded ==
    /\ lastCall.op \in {"reset", "destroy"} => cache = <<>>
    /\ lastCall.op = "reset" =>
          /\ metrics = ZeroMetrics([u \in Range(modules) |-> ZeroModuleMetrics])
          /\ state.globalRiskScore = 0
          /\ state.confidence = 0

\* reset() was the last call on the engine, and the request that was
\* executing at that time has since been resolved: its result set is in the
\* cache, and the metrics and the global score carry its figures.
ResetOverwritten ==
    /\ lastCall.op = "reset"
    /\ \E r \in Requests : req[r].status = "resolved" /\ ~req[r].fromCache
    /\ Len(cache) = 1
    /\ metrics.totalAnalyses = 1
    /\ ModuleMetricsOf(metrics.modulePerformance, "heart").totalCalls = 1
    /\ state.globalRiskScore = 80
    /\ state.confidence = 90

\* C15: immediately after DigitalTwinEngine.reset() returns, all metric
\* counters are zero, including the per-unit counters, the cache is empty, the
\* queue is empty, and the registered units are exactly those registered
\* before the reset.
ResetSemantics ==
    [][reset =>
        /\ metrics'.totalAnalyses = 0
        /\ metrics'.averageProcessingTime = 0
        /\ metrics'.cacheHitRate = 0
        /\ metrics'.errorRate = 0
        /\ DOMAIN metrics'.modulePerformance = Range(modules)
        /\ \A u \in DOMAIN metrics'.modulePerformance :
              metrics'.modulePerformance[u] = ZeroModuleMetrics
        /\ cache' = <<>>
        /\ analysisQueue' = <<>>
        /\ modules' = modules]_vars

\* reset() has just returned on an engine that had computed a result set for
\* heart, with a second request executing and a third one queued.
ResetSemanticsWitness ==
    /\ lastCall.op = "reset"
    /\ modules = <<"heart">>
    /\ metrics = ZeroMetrics([u \in {"heart"} |-> ZeroModuleMetrics])
    /\ cache = <<>>
    /\ analysisQueue = <<>>
    /\ \E r \in Requests :
          req[r].status = "resolved" /\ ~req[r].fromCache /\ req[r].calls["heart"] = 1
    /\ \E r \in Requests : req[r].status = "executing"
    /\ \E r \in Requests : req[r].error = "Engine reset - analysis cancelled"

\* C16: registerModule with an id that is already registered throws, and
\* unregisterModule with an id that is not registered throws; in both cases
\* the registry, the active-unit list, the per-unit metrics and the emitted
\* events are exactly as before the call.
RegistryErrorsLeaveState ==
    [][\A u \in EngineUnits :
          ((registerModule(u) /\ u \in Range(modules))
             \/ (unregisterModule(u) /\ u \notin Range(modules))) =>
              /\ lastCall'.threw # ""
              /\ modules' = modules
              /\ state'.activeModules = state.activeModules
              /\ metrics'.modulePerformance = metrics.modulePerformance
              /\ emitted' = emitted]_vars

\* registerModule(heart) has just thrown on an engine where heart is
\* registered once and has been called by a request.
RegistryErrorsWitness ==
    /\ lastCall = Call("registerModule", "heart", "Module is already registered")
    /\ Cardinality({i \in DOMAIN modules : modules[i] = "heart"}) = 1
    /\ state.activeModules = modules
    /\ emitted.moduleRegistered = Len(modules)
    /\ ModuleMetricsOf(metrics.modulePerformance, "heart").totalCalls = 1

InvalidUpdate(upd) ==
    \/ upd.field = "maxConcurrentAnalyses" /\ upd.value <= 0
    \/ upd.field = "cacheMaxSize" /\ upd.value < 0

\* C17: updateConfig called with an invalid value (negative cache size,
\* maxConcurrentAnalyses <= 0) is rejected synchronously and leaves the engine
\* configuration and state unchanged.
ConfigValidation ==
    [][\A upd \in ConfigUpdates :
          (updateConfig(upd) /\ InvalidUpdate(upd)) =>
              /\ lastCall'.threw # ""
              /\ config' = config
              /\ cache' = cache]_vars

\* updateConfig({maxConcurrentAnalyses: 0}) returned normally and is in
\* force: a request is in the queue, no drain loop is running and nothing
\* executes, so the request is never admitted.
InvalidConfigAccepted ==
    /\ lastCall = Call("updateConfig", "maxConcurrentAnalyses", "")
    /\ config.maxConcurrentAnalyses = 0
    /\ analysisQueue # <<>>
    /\ Executing = {}
    /\ ~isProcessingQueue
    /\ immediates > 0

\* C18: requests are admitted in the order in which analyzeHealth enqueued
\* them: the queue holds the waiting requests oldest first, and a request
\* enqueued later is never started before a request enqueued earlier.
FIFOAdmission ==
    /\ \A i, j \in DOMAIN analysisQueue : i < j => analysisQueue[i] < analysisQueue[j]
    /\ \A q, r \in Requests :
          (q < r /\ req[r].attempt >= 1) => req[q].attempt >= 1

\* Two requests were admitted together; the later one has completed while
\* the earlier one still executes, and a third one waits in the queue.
FIFOAdmissionWitness ==
    \E q, r, w \in Requests :
        /\ q < r /\ r < w
        /\ req[q].status = "executing"
        /\ req[r].status = "resolved"
        /\ \E b \in loops : {q, r} \subseteq b
        /\ analysisQueue = <<w>>

\* C19: when one executing request finishes while the queue is non-empty, the
\* next queued request is admitted at that point, without waiting for the
\* requests admitted together with the finished one: a drain loop never holds
\* a finished request next to an unfinished one while a request is queued.
SlotFreeAdmission ==
    \A b \in loops :
        ((\E r \in b : Settled(req[r])) /\ analysisQueue # <<>>) =>
            \A r \in b : Settled(req[r])

\* Of two requests admitted together one has been resolved; the engine is at
\* rest with one slot free and a request in the queue, which stays there
\* until the other request of the pair finishes.
FreeSlotNotRefilled ==
    \E b \in loops : \E q, r \in b :
        /\ req[q].status = "executing" /\ req[q].pending # {}
        /\ req[r].status = "resolved"
        /\ analysisQueue # <<>>
        /\ Cardinality(Executing) < config.maxConcurrentAnalyses
        /\ ~MicrotasksPending
        /\ immediates = 0
        /\ isProcessingQueue

\* The entries of a result set that are not fallback entries.
NonFailed(organResults) ==
    SelectSeq(organResults, LAMBDA r : r.error = Undefined)

\* C20: when no interaction is active, the global score is the arithmetic
\* mean of the scores of all non-failed unit results and the global
\* confidence is the mean of their confidences; when every unit failed, both
\* are 0.
Aggregation ==
    (orch.status = "complete" /\ orch.organInteractions = <<>>) =>
        LET ok == NonFailed(orch.results)
        IN  IF ok = <<>>
            THEN /\ orch.globalRiskScore = Rat(0, 1)
                 /\ orch.globalConfidence = Rat(0, 1)
            ELSE /\ orch.globalRiskScore =
                        Rat(SumSeq([i \in DOMAIN ok |-> ok[i].riskScore]), Len(ok))
                 /\ orch.globalConfidence =
                        Rat(SumSeq([i \in DOMAIN ok |-> ok[i].confidence]), Len(ok))

\* A run over pulmonary (score 50, confidence 80) and hepatic, whose call
\* rejected with an Error without a message: no interaction is active and
\* the global figures are halved by hepatic's fallback entry.
FailedUnitAveraged ==
    /\ orch.status = "complete"
    /\ orch.organInteractions = <<>>
    /\ Len(orch.results) = 2
    /\ \E i \in DOMAIN orch.results :
          orch.results[i].moduleId = "hepatic" /\ orch.results[i].error = Message("")
    /\ \E i \in DOMAIN orch.results :
          orch.results[i].moduleId = "pulmonary" /\ orch.results[i].error = Undefined
    /\ orch.globalRiskScore = Rat(25, 1)
    /\ orch.globalConfidence = Rat(40, 1)


\* The registered interactions over the same organs as an active one, and
\* the figures of a completed run that the aggregation starts from.
Registered(active) ==
    {k \in DOMAIN interactions : interactions[k].organs = active.organs}

CountedResults == SelectSeq(orch.results, LAMBDA r : ~Truthy(r.error))

UninteractedScore ==
    Quotient(Total([i \in DOMAIN CountedResults |-> CountedResults[i].riskScore]),
             Len(CountedResults))

UninteractedConfidence ==
    Quotient(Total([i \in DOMAIN CountedResults |-> CountedResults[i].confidence]),
             Len(CountedResults))

\* baseImpact * |correlation| of the one active interaction.
EffectiveImpact ==
    LET active == orch.organInteractions[1]
        base   == interactions[CHOOSE k \in Registered(active) : TRUE].impactFactor
    IN  RatMul(base,
               RatAbs(calculateCorrelation(
                   [k \in DOMAIN active.organs |->
                       ScoreOf(orch.results, active.organs[k])])))

OneSynergisticActive ==
    /\ orch.status = "complete"
    /\ Len(orch.organInteractions) = 1
    /\ orch.organInteractions[1].interactionType = "synergistic"
    /\ Len(orch.organInteractions[1].organs) = 2

\* C21 as stated: with exactly one synergistic interaction over two units
\* whose correlation signal is above the threshold, the global score equals
\* the uninteracted mean multiplied by exactly baseImpact * |correlation|, and
\* the global confidence is unchanged by the interaction.
InteractionMultiplierExact ==
    OneSynergisticActive =>
        /\ orch.globalRiskScore = RatMul(UninteractedScore, EffectiveImpact)
        /\ orch.globalConfidence = UninteractedConfidence

\* C21 amended: with exactly one synergistic interaction over two units
\* whose correlation signal is above the threshold, the global score is the
\* uninteracted mean multiplied by baseImpact * |correlation| and then
\* limited to 100; the global confidence is unchanged by the interaction; for
\* scores 80 and 20 with impactFactor 1.2 the score is above the
\* uninteracted 50.
InteractionMultiplier ==
    OneSynergisticActive =>
        /\ orch.globalRiskScore =
               RatMin(Rat(100, 1), RatMul(UninteractedScore, EffectiveImpact))
        /\ orch.globalConfidence = UninteractedConfidence
        /\ ( /\ Len(orch.results) = 2
             /\ {orch.results[i].riskScore : i \in DOMAIN orch.results} = {20, 80}
             /\ \A i \in DOMAIN orch.results : orch.results[i].error = Undefined
             /\ \A k \in Registered(orch.organInteractions[1]) :
                    interactions[k].impactFactor = Rat(120, 100) )
           => /\ UninteractedScore = Rat(50, 1)
              /\ orch.globalRiskScore = Rat(54, 1)

\* A run over two units that returned 80 and 20, with the one interaction
\* over them (impactFactor 1.2) active: correlation 0.9, global score 54.
InteractionMultiplierWitness ==
    /\ OneSynergisticActive
    /\ Len(orch.results) = 2
    /\ {orch.results[i].riskScore : i \in DOMAIN orch.results} = {20, 80}
    /\ \A i \in DOMAIN orch.results : orch.results[i].error = Undefined
    /\ orch.organInteractions[1].impactFactor = Rat(108, 100)
    /\ orch.globalRiskScore = Rat(54, 1)


\* Every unit the interaction names has a non-failed entry in the results.
Covered(x) ==
    \A k \in DOMAIN x.organs :
        \E i \in DOMAIN orch.results :
            /\ orch.results[i].moduleId = x.organs[k]
            /\ orch.results[i].error = Undefined

AboveThreshold(x) ==
    RatLeq(orch.config.correlationThreshold,
           RatAbs(calculateCorrelation(
               [k \in DOMAIN x.organs |-> ScoreOf(orch.results, x.organs[k])])))

IsActive(x) ==
    \E a \in DOMAIN orch.organInteractions :
        orch.organInteractions[a].organs = x.organs

\* C22: an interaction is active in a result if and only if every unit it
\* names has a non-failed result in that request and |correlation| >=
\* correlationThreshold; an interaction that names a failed, missing or
\* unregistered unit is never active and never changes the global score; with
\* enableInteractionModeling = false no interaction is active.
InteractionGating ==
    orch.status = "complete" =>
        /\ ~orch.config.enableInteractionModeling => orch.organInteractions = <<>>
        /\ orch.config.enableInteractionModeling =>
               \A k \in DOMAIN interactions :
                   IsActive(interactions[k]) <=>
                       (Covered(interactions[k]) /\ AboveThreshold(interactions[k]))
        /\ (\A k \in DOMAIN interactions : ~Covered(interactions[k])) =>
               orch.globalRiskScore =
                   IF CountedResults = <<>> THEN Rat(0, 1) ELSE UninteractedScore

\* A run in which hepatic's call rejected with an Error without a message
\* and the interaction over hepatic and cardiovascular is reported active.
FailedUnitInteractionActive ==
    /\ orch.status = "complete"
    /\ \E i \in DOMAIN orch.results :
           /\ orch.results[i].moduleId = "hepatic"
           /\ orch.results[i].error = Message("")
    /\ \E a \in DOMAIN orch.organInteractions :
           orch.organInteractions[a].organs = <<"hepatic", "cardiovascular">>
    /\ orch.globalRiskScore # UninteractedScore


Organs(list) == [k \in DOMAIN list |-> list[k].organs]

\* The multipliers of the reported interactions applied one after another,
\* first to last.
RECURSIVE MultipliedInOrder(_, _)
MultipliedInOrder(score, list) ==
    IF list = <<>> THEN score
    ELSE MultipliedInOrder(
             RatMul(score,
                    IF Head(list).interactionType = "synergistic"
                    THEN Head(list).impactFactor
                    ELSE RatSub(Rat(2, 1), Head(list).impactFactor)),
             Tail(list))

\* C23: the active interactions reported in a result, and the order in which
\* their multipliers are applied to the global score, follow the order in
\* which the interactions were registered (built-in defaults first, then
\* addInteraction calls in call order), for any subset that is active.
InteractionOrder ==
    /\ [](/\ SubSeq(interactions, 1, Len(defaultInteractions)) = defaultInteractions
          /\ orch.status = "complete" =>
                /\ Organs(orch.organInteractions) =
                       Organs(SelectSeq(interactions, IsActive))
                /\ CountedResults # <<>> =>
                       orch.globalRiskScore =
                           RatMin(Rat(100, 1),
                                  MultipliedInOrder(UninteractedScore,
                                                    orch.organInteractions)))
    /\ [][interactions' # interactions =>
              \E x \in CustomInteractions : interactions' = Append(interactions, x)]_vars

\* A run with a built-in and an added interaction both active, the added one
\* reported last.
InteractionOrderWitness ==
    /\ orch.status = "complete"
    /\ Len(interactions) > Len(defaultInteractions)
    /\ Len(orch.organInteractions) >= 2
    /\ orch.organInteractions[1].organs = <<"hepatic", "cardiovascular">>
    /\ orch.organInteractions[Len(orch.organInteractions)].organs =
           interactions[Len(interactions)].organs
    /\ orch.organInteractions[Len(orch.organInteractions)].organs
           \notin Range(Organs(defaultInteractions))


\* C24: a unit whose call returns invalid data (a value without a score or
\* confidence) is treated as a unit failure: its entry in the result set is
\* the fallback result carrying a failure marker, and it is excluded from the
\* global score and confidence. So every entry of a returned result set is a
\* result with a score and a confidence or the marked fallback, and the global
\* figures are the means over the unmarked entries.
InvalidDataIsFailure ==
    orch.status = "complete" =>
        /\ \A i \in DOMAIN orch.results :
               \/ /\ orch.results[i].error = Undefined
                  /\ orch.results[i].riskScore # NaN
                  /\ orch.results[i].confidence # NaN
               \/ /\ orch.results[i].error # Undefined
                  /\ orch.results[i].riskScore = 0
                  /\ orch.results[i].confidence = 0
        /\ orch.globalRiskScore # RatNaN
        /\ orch.globalConfidence # RatNaN

\* A run over two units, one returning a score and one returning a value
\* without score and confidence: the second entry is stored unmarked, without
\* either number, and both global figures are NaN.
InvalidEntryAveraged ==
    /\ orch.status = "complete"
    /\ Len(orch.results) = 2
    /\ \E i, j \in DOMAIN orch.results :
           /\ orch.results[i].riskScore = NaN
           /\ orch.results[i].error = Undefined
           /\ orch.results[j].riskScore = 80
    /\ orch.globalRiskScore = RatNaN
    /\ orch.globalConfidence = RatNaN


\* The result set has exactly one entry for each of the units and no other.
OneEntryEach(results, units) ==
    /\ Len(results) = Len(units)
    /\ {results[i].moduleId : i \in DOMAIN results} = Range(units)

\* C25: every result set returned by analyzeHealth, freshly computed or
\* served from the cache, contains exactly one entry for each unit registered
\* at the time of the call and no entry for a unit that is not registered,
\* for any sequence of registerModule, unregisterModule and analyzeHealth
\* calls: a call answered from the cache returns such a set for the registry
\* of that moment, a call whose analysis starts at once analyses the registry
\* of that moment, and a computed set has one entry per analysed unit.
CompleteResultSet ==
    /\ [][\A r \in Requests :
             /\ (req[r].status = "new" /\ req'[r].status = "resolved")
                    => OneEntryEach(req'[r].results, modules)
             /\ (req[r].status = "new" /\ req'[r].status = "executing")
                    => req'[r].units = modules]_vars
    /\ [](\A r \in Requests :
             (req[r].status = "resolved" /\ ~req[r].fromCache)
                 => OneEntryEach(req[r].results, req[r].units))

\* A call answered from the cache after a second unit was registered: the
\* returned set has the one entry computed before.
StaleResultSetServed ==
    \E r \in Requests :
        /\ req[r].status = "resolved"
        /\ req[r].fromCache
        /\ lastCall.op = "analyzeHealth"
        /\ Len(modules) = 2
        /\ Len(req[r].results) = 1


\* C26: whenever the cache is enabled, every cache entry older than cacheTTL
\* is eventually removed by the periodic sweep even if no lookup ever touches
\* it, and the sweep removes only expired entries, also when the cache was
\* enabled through updateConfig after construction. So whenever the cache is
\* enabled the sweep's interval timer is running, and a sweep leaves exactly
\* the entries that are not expired.
PeriodicSweep ==
    /\ [](config.cacheEnabled => cleanupInterval)
    /\ [][CleanupTimer =>
              cache' = SelectSeq(cache, LAMBDA e : ~(now - e.timestamp > config.cacheTTL))]_vars

\* The cache was enabled by updateConfig on an engine constructed without
\* it: an entry older than cacheTTL is in the store and no sweep is scheduled.
ExpiredEntryNeverSwept ==
    /\ config.cacheEnabled
    /\ ~cleanupInterval
    /\ \E i \in DOMAIN cache : now - cache[i].timestamp > config.cacheTTL
    /\ ~ENABLED CleanupTimer


\* The units of the current run that have been called.
Called ==
    IF orch.status = "running" /\ orch.config.enableDependencyAnalysis
    THEN {i \in DOMAIN orch.path : \E k \in orch.pending : i <= k}
    ELSE DOMAIN orch.path

\* value scaled once for every edge of the given type whose source has a
\* non-failed entry among the earlier results.
RECURSIVE Scaled(_, _, _, _, _)
Scaled(value, edges, earlier, type, share) ==
    IF edges = <<>> THEN value
    ELSE LET e   == Head(edges)
             src == {j \in DOMAIN earlier :
                        /\ earlier[j].moduleId = e.sourceOrgan
                        /\ earlier[j].error = Undefined}
             s   == earlier[CHOOSE j \in src : TRUE].riskScore
         IN  Scaled(IF e.dependencyType = type /\ src # {}
                    THEN RatMul(value,
                                RatAdd(Rat(1, 1),
                                       RatMul(Rat(s * e.strength, 10000), share)))
                    ELSE value,
                    Tail(edges), earlier, type, share)

IncomingEdges(u) == SelectSeq(dependencies, LAMBDA d : d.targetOrgan = u)

\* C27: orchestrateAnalysis never changes any field of the caller-supplied
\* input record; each dependent unit receives a separate adjusted copy, the
\* adjustment uses only incoming edges whose source unit already has a
\* non-failed result in this request, and a failed or not-yet-analysed source
\* contributes no adjustment.
InputImmutability ==
    /\ [][\A h \in OrchHealthRecords :
              orchestrateAnalysis(h) => orch'.healthData = h]_vars
    /\ [][orch.status = "running" => orch'.healthData = orch.healthData]_vars
    /\ [](\A i \in Called :
              orch.received[i] =
                  IF orch.config.enableDependencyAnalysis
                  THEN [bloodPressureSystolic |->
                            Scaled(orch.healthData.bloodPressureSystolic,
                                   IncomingEdges(orch.path[i]),
                                   SubSeq(orch.results, 1, i - 1),
                                   "circulatory", Rat(1, 10)),
                        glucose |->
                            Scaled(orch.healthData.glucose,
                                   IncomingEdges(orch.path[i]),
                                   SubSeq(orch.results, 1, i - 1),
                                   "metabolic", Rat(5, 100))]
                  ELSE orch.healthData)

\* A sequential run over hepatic (20), cardiovascular (80) and pulmonary:
\* cardiovascular received the glucose scaled by 1.007, pulmonary the systolic
\* pressure scaled by 1.076 and the original glucose, and the caller's record
\* is as passed.
InputImmutabilityWitness ==
    /\ orch.status = "complete"
    /\ orch.path = <<"hepatic", "cardiovascular", "pulmonary">>
    /\ orch.healthData = HealthData(120, 100)
    /\ orch.received[1] = HealthData(120, 100)
    /\ orch.received[2] = [bloodPressureSystolic |-> Rat(120, 1),
                           glucose |-> Rat(1007, 10)]
    /\ orch.received[3] = [bloodPressureSystolic |-> Rat(3228, 25),
                           glucose |-> Rat(100, 1)]


\* The edges between units of the current run, and the calls that have
\* produced their result.
RunEdges ==
    {<<dependencies[k].sourceOrgan, dependencies[k].targetOrgan>> :
        k \in {d \in DOMAIN dependencies :
                  /\ dependencies[d].sourceOrgan \in Range(orch.path)
                  /\ dependencies[d].targetOrgan \in Range(orch.path)}}

Produced == Called \ orch.pending

CycleNodeAppendedAtDetection ==
    orderComputed =>
        \A c \in detectedCycles(orchModules, dependencies) :
            c[1] # c[2] => Before(analysisOrder, c[1], c[2])

\* C29 amended: when the traversal encounters a node that is still being
\* visited, it returns without appending it; the node is appended once, when
\* its own visit completes, so it appears in the order after the node whose
\* dependencies were being visited when the cycle was detected.
CyclePolicy ==
    orderComputed =>
        \A c \in detectedCycles(orchModules, dependencies) :
            /\ Cardinality({i \in DOMAIN analysisOrder : analysisOrder[i] = c[1]}) = 1
            /\ c[1] # c[2] =>
                   /\ Before(analysisOrder, c[2], c[1])
                   /\ ~Before(analysisOrder, c[1], c[2])

\* cardiovascular and renal, registered in this order: visiting
\* cardiovascular walks the edge from renal, whose visit meets cardiovascular
\* again; the order is renal, cardiovascular.
CyclePolicyWitness ==
    /\ orderComputed
    /\ orchModules = <<"cardiovascular", "renal">>
    /\ detectedCycles(orchModules, dependencies) = {<<"cardiovascular", "renal">>}
    /\ analysisOrder = <<"renal", "cardiovascular">>


\* C30: after OrganOrchestrator.reset(), every unit that was registered
\* before the reset is still registered and is analysed by the next
\* orchestrateAnalysis call: reset leaves the registry as it was and every
\* call analyses the units registered when it is made.
OrchResetKeepsUnits ==
    /\ [][OrchReset => orchModules' = orchModules]_vars
    /\ [][\A h \in OrchHealthRecords :
              orchestrateAnalysis(h) => Range(orch'.path) = Range(orchModules)]_vars

\* The last run analysed units, reset() was called since, and the registry
\* is empty: the next orchestrateAnalysis call analyses nothing.
UnitsLostByReset ==
    /\ orch.status = "complete"
    /\ Len(orch.path) >= 2
    /\ orchModules = <<>>


\* C31: also when reset() is called while a batch is executing and further
\* analyzeHealth calls follow, the number of requests whose unit calls are
\* executing never exceeds maxConcurrentAnalyses, and at most one drain loop
\* is active.
UnitCallsExecuting == {r \in Requests : req[r].status = "executing"}

ConcurrencyBoundSurvivesReset ==
    /\ Cardinality(UnitCallsExecuting) <= config.maxConcurrentAnalyses
    /\ Cardinality(loops) <= 1

\* After reset() during a batch, a newly admitted request runs beside the old
\* one under a limit of one, each in its own drain loop.
SecondLoopAfterReset ==
    /\ config.maxConcurrentAnalyses = 1
    /\ Cardinality(UnitCallsExecuting) = 2
    /\ Cardinality(loops) = 2
    /\ \A r \in UnitCallsExecuting : req[r].pending # {}


\* C32: with the cache enabled and cacheMaxSize = 0, a request whose unit
\* calls have all settled resolves with the computed result set, each unit
\* having been invoked exactly once for it, and the cache stays empty.
ZeroSizeCacheResolves ==
    [][\A r \in Requests :
          (/\ config.cacheEnabled /\ config.cacheMaxSize = 0
           /\ cache = <<>>
           /\ CompleteAnalysis(r))
          => /\ req'[r].status = "resolved"
             /\ req'[r].results = req[r].results
             /\ \A u \in Range(modules) : req'[r].calls[u] = 1
             /\ cache' = <<>>]_vars

\* The request is rejected with the TypeError of the eviction path after the
\* unit was invoked on every attempt.
ZeroSizeCacheRejects ==
    /\ config.cacheEnabled /\ config.cacheMaxSize = 0
    /\ cache = <<>>
    /\ \E r \in Requests :
          /\ req[r].status = "rejected"
          /\ req[r].error = "TypeError"
          /\ req[r].attempt = config.retryAttempts
          /\ \E u \in Range(modules) : req[r].calls[u] = config.retryAttempts


\* C33: in every reachable state the cache holds at most cacheMaxSize
\* entries, for the current value of cacheMaxSize, also after updateConfig
\* has lowered it below the number of entries and further results were
\* inserted.
CacheWithinCurrentLimit == Len(cache) <= config.cacheMaxSize

\* cacheMaxSize was lowered to one while the cache held two entries; a third
\* fingerprint was computed and inserted afterwards, and the cache still
\* holds two entries.
InsertedAboveLoweredLimit ==
    /\ config.cacheMaxSize = 1
    /\ lastCall.op = "analyzeHealth"
    /\ \A r \in 1..3 : req[r].status = "resolved" /\ ~req[r].fromCache
    /\ Len(cache) = 2
    /\ cache[2].hash = CacheKeyOf[req[3].healthData]


\* C34: for any edge set, cyclic or not, and any registration order, every
\* edge between registered units whose two endpoints do not lie on a common
\* cycle has its source before its target in the computed order.
OnCommonCycle(R, a, b) ==
    LET P == Paths(R, Cardinality(OrganIds))
    IN  <<a, b>> \in P /\ <<b, a>> \in P

OrderingOutsideCycles ==
    orderComputed =>
        \A e \in RegisteredEdges :
            ~OnCommonCycle(RegisteredEdges, e[1], e[2])
            => Before(analysisOrder, e[1], e[2])

\* neurological was registered before cardiovascular and renal, which form a
\* cycle; the edge from cardiovascular to neurological is on no cycle and is
\* respected, while only one edge of the cycle can be.
OrderingOutsideCyclesWitness ==
    /\ orderComputed
    /\ orchModules = <<"neurological", "cardiovascular", "renal">>
    /\ OnCommonCycle(RegisteredEdges, "cardiovascular", "renal")
    /\ ~OnCommonCycle(RegisteredEdges, "cardiovascular", "neurological")
    /\ <<"cardiovascular", "neurological">> \in RegisteredEdges
    /\ Before(analysisOrder, "cardiovascular", "neurological")
    /\ ~Before(analysisOrder, "cardiovascular", "renal")


\* C35: each request is settled exactly once. A resolved or rejected request
\* stays as it was settled (so a caller never observes both, and a request
\* rejected by reset() or destroy() is never executed or resolved afterwards),
\* reset() and destroy() reject queued requests only, and a request that has
\* been admitted is left executing by a later reset() or destroy().
Admitted(rec) == rec.status \in {"executing", "retryWait"}

SettledExactlyOnce ==
    [][\A r \in Requests :
          /\ Settled(req[r]) =>
                /\ req'[r].status = req[r].status
                /\ req'[r].results = req[r].results
                /\ req'[r].error = req[r].error
                /\ req'[r].calls = req[r].calls
          /\ (reset \/ destroy) =>
                /\ Admitted(req[r]) => req'[r] = req[r]
                /\ (~Settled(req[r]) /\ req'[r].status = "rejected")
                   => req[r].status = "queued"
      ]_vars

\* reset() has just rejected the queued second request and left the first,
\* whose unit call is still running, executing.
AdmittedSurvivesReset ==
    /\ lastCall.op = "reset"
    /\ req[1].status = "executing" /\ req[1].pending # {}
    /\ req[2].status = "rejected"
    /\ req[2].error = "Engine reset - analysis cancelled"
    /\ \A u \in EngineUnits : req[2].calls[u] = 0


\* C36: in every reachable state the per-unit performance table has entries
\* only for currently registered units, also when a unit is unregistered
\* while a request that invoked it is executing and the request completes
\* afterwards.
PerformanceTableOfRegisteredUnits ==
    DOMAIN metrics.modulePerformance \subseteq Range(modules)

\* The unit was unregistered while its call was running; the call has
\* settled and the request resolved, and the table holds the unit's counters
\* again.
UnregisteredUnitCounted ==
    /\ config.performanceMonitoring
    /\ lastCall = Call("unregisterModule", "heart", "")
    /\ "heart" \notin Range(modules)
    /\ req[1].status = "resolved" /\ "heart" \in Range(req[1].units)
    /\ "heart" \in DOMAIN metrics.modulePerformance
    /\ metrics.modulePerformance["heart"].totalCalls = 1


\* C37: failed results are cached like successful ones. After a computed
\* request for a record in which a unit produced a fallback entry, the next
\* analyzeHealth for the same record within the TTL returns the same result
\* set, failure-marked entry included, from the cache, and invokes no unit.
Fallback(entry) == entry.error.present

FailedResultsCached ==
    [][\A q, r \in Requests :
          ( /\ r = q + 1
            /\ req[q].status = "resolved" /\ ~req[q].fromCache
            /\ \E i \in DOMAIN req[q].results : Fallback(req[q].results[i])
            /\ req[r].status = "new" /\ req'[r].status # "new"
            /\ req'[r].healthData = req[q].healthData
            /\ now - req[q].settledAt <= config.cacheTTL )
          => /\ req'[r].status = "resolved" /\ req'[r].fromCache
             /\ \A i \in DOMAIN req[q].results :
                    /\ i \in DOMAIN req'[r].results
                    /\ req'[r].results[i] = req[q].results[i]
             /\ \A u \in EngineUnits : req'[r].calls[u] = 0
      ]_vars

\* heart timed out in the first request; the second request for the same
\* record, made at the end of the TTL, got the fallback entry from the cache
\* and heart was not called again.
FailedResultsCachedWitness ==
    \E q, r \in Requests :
        /\ r = q + 1
        /\ req[q].status = "resolved" /\ ~req[q].fromCache
        /\ req[q].units = <<"heart">>
        /\ Fallback(req[q].results[1])
        /\ req[q].results[1].error = Message("Module analysis timeout")
        /\ req[r].status = "resolved" /\ req[r].fromCache
        /\ req[r].healthData = req[q].healthData
        /\ req[r].results = req[q].results
        /\ req[q].calls["heart"] = 1
        /\ req[r].calls["heart"] = 0
        /\ req[r].settledAt = req[q].settledAt + config.cacheTTL


\* C38: requests for the same record are not computed twice. When
\* analyzeHealth(x) is called again before the first call for x has
\* completed (the later request was not answered from the cache), the units
\* are invoked for only one of the two requests and both callers receive the
\* same result set.
Invoked(rec) == \E u \in EngineUnits : rec.calls[u] > 0

InFlightDeduplication ==
    \A q, r \in Requests :
        ( /\ q < r
          /\ req[q].status # "new" /\ req[r].status # "new"
          /\ req[r].healthData = req[q].healthData
          /\ ~req[r].fromCache )
        => /\ ~(Invoked(req[q]) /\ Invoked(req[r]))
           /\ (req[q].status = "resolved" /\ req[r].status = "resolved")
              => req[r].results = req[q].results

\* Both calls for the record were queued and computed: heart was called
\* once for each, timed out for the first and returned for the second, and
\* the two callers hold different result sets.
ComputedTwice ==
    /\ req[1].status = "resolved" /\ ~req[1].fromCache
    /\ req[2].status = "resolved" /\ ~req[2].fromCache
    /\ req[1].healthData = req[2].healthData
    /\ req[1].calls["heart"] = 1 /\ req[2].calls["heart"] = 1
    /\ Fallback(req[1].results[1]) /\ ~Fallback(req[2].results[1])


\* C39: healthCheck() reports 'healthy' for an idle engine: whenever the
\* queue is empty, no request is executing, the cache is enabled and below
\* 90% of its capacity, and the error rate and the average processing time
\* are not above their thresholds, the reported status is 'healthy'.
IdleAndWell ==
    /\ analysisQueue = <<>>
    /\ Executing = {}
    /\ config.cacheEnabled
    /\ Len(cache) * 10 < config.cacheMaxSize * 9
    /\ metrics.errorRate # NaN
    /\ metrics.errorRate <= 10 * metrics.totalAnalyses
    /\ metrics.averageProcessingTime <= 10000 * metrics.totalAnalyses

IdleEngineHealthy ==
    [][(healthCheck /\ IdleAndWell) => lastCall'.arg = "healthy"]_vars

\* A request was computed and resolved without error, one of two cache
\* slots is taken, nothing is queued or executing, and healthCheck() has
\* just answered 'degraded': the idle queue counts as 'stalled'.
IdleEngineDegraded ==
    /\ lastCall = Call("healthCheck", "degraded", "")
    /\ IdleAndWell
    /\ config.performanceMonitoring /\ metrics.totalAnalyses = 1
    /\ req[1].status = "resolved" /\ ~Fallback(req[1].results[1])
    /\ Len(cache) = 1 /\ config.cacheMaxSize = 2
    /\ healthDetails.queueHealth = "stalled"
    /\ healthDetails.cacheHealth = "ok"
    /\ healthDetails.performanceHealth = "ok"

====
